---------------------------- MODULE Spec2Model ----------------------------
(***************************************************************************)
(* Model of the LinkedIn post automation backend:                          *)
(*   backend/services/groq_service.py      (GroqService)                   *)
(*   backend/services/linkedin_service.py  (LinkedInService)               *)
(*   backend/main.py                       (the FastAPI handlers)          *)
(*                                                                         *)
(* Text is a sequence of one-character strings, so that len(), slicing,    *)
(* rfind(), split() and join() are computed as Python computes them.       *)
(* Python indices are 0-based; the operators below say which base they use.*)
(***************************************************************************)
EXTENDS Integers, Sequences, FiniteSets, TLC

(***************************************************************************)
(* Program constants.                                                      *)
(***************************************************************************)
\* groq_service.py:99  max_chars: int = 2950
DefaultMaxChars == 2950
\* groq_service.py:117  best_ending > max_chars - 200
SentenceWindow == 200
\* groq_service.py:134  len(truncated) < max_chars - 50
Headroom == 50
\* groq_service.py:127  len(line) < 3
HashtagMinLen == 3

\* groq_service.py:135  "\n\n[Content continued in comments...]"
ContinuationMarker ==
    <<"\n","\n","[","C","o","n","t","e","n","t"," ","c","o","n","t","i","n",
      "u","e","d"," ","i","n"," ","c","o","m","m","e","n","t","s",".",".",
      ".","]">>

(***************************************************************************)
(* Bounds of the model.                                                    *)
(***************************************************************************)
\* longest text enumerated exhaustively over SmallAlphabet
MaxSmallLen == 4
\* largest max_chars paired with the exhaustively enumerated texts
MaxSmallMax == 4
\* a second, non-default max_chars above SentenceWindow for the long texts
MidMaxChars == 260
\* the smallest max_chars at which the continuation note can be appended
TightMaxChars == Headroom + 1

(***************************************************************************)
(* Python string primitives on sequences of characters.                    *)
(***************************************************************************)
Max2(a, b) == IF a >= b THEN a ELSE b

Min2(a, b) == IF a <= b THEN a ELSE b

\* s[:k] for k >= 0
Prefix(s, k) == SubSeq(s, 1, Min2(k, Len(s)))

\* s.rfind(c): the 0-based index of the last occurrence of c, or -1
RFind(s, c) ==
    IF \A i \in 1..Len(s) : s[i] # c
    THEN -1
    ELSE (CHOOSE i \in 1..Len(s) :
              s[i] = c /\ \A j \in (i + 1)..Len(s) : s[j] # c) - 1

\* s.startswith(p)
StartsWith(s, p) ==
    /\ Len(p) <= Len(s)
    /\ \A j \in 1..Len(p) : s[j] = p[j]

\* sub in s
Contains(s, sub) ==
    \E i \in 1..(Len(s) - Len(sub) + 1) :
        \A j \in 1..Len(sub) : s[i + j - 1] = sub[j]

\* the cased characters of the program's texts, for str.lower()
LowerOf ==
    ("A" :> "a") @@ ("B" :> "b") @@ ("C" :> "c") @@ ("D" :> "d") @@
    ("E" :> "e") @@ ("F" :> "f") @@ ("G" :> "g") @@ ("H" :> "h") @@
    ("I" :> "i") @@ ("J" :> "j") @@ ("K" :> "k") @@ ("L" :> "l") @@
    ("M" :> "m") @@ ("N" :> "n") @@ ("O" :> "o") @@ ("P" :> "p") @@
    ("Q" :> "q") @@ ("R" :> "r") @@ ("S" :> "s") @@ ("T" :> "t") @@
    ("U" :> "u") @@ ("V" :> "v") @@ ("W" :> "w") @@ ("X" :> "x") @@
    ("Y" :> "y") @@ ("Z" :> "z")

UpperCase == DOMAIN LowerOf

\* the sequence of n characters whose i-th character is f[i]
Text(f, n) == SubSeq(f, 1, n)

\* s.lower()
Lower(s) ==
    Text([i \in 1..Len(s) |-> IF s[i] \in UpperCase THEN LowerOf[s[i]] ELSE s[i]], Len(s))

Whitespace == {" ", "\t", "\n", "\r"}

\* s.strip()
Strip(s) ==
    IF \A i \in 1..Len(s) : s[i] \in Whitespace
    THEN <<>>
    ELSE LET first == CHOOSE i \in 1..Len(s) :
                          s[i] \notin Whitespace
                          /\ \A j \in 1..(i - 1) : s[j] \in Whitespace
             last == CHOOSE i \in 1..Len(s) :
                         s[i] \notin Whitespace
                         /\ \A j \in (i + 1)..Len(s) : s[j] \in Whitespace
         IN  SubSeq(s, first, last)

\* len(s.split()): the number of whitespace-separated tokens
TokenCount(s) ==
    Cardinality({i \in 1..Len(s) :
                    s[i] \notin Whitespace /\ (i = 1 \/ s[i - 1] \in Whitespace)})

\* s.split('\n'): the lines of s, one more than the number of newlines
SplitLines(s) ==
    LET P == {i \in 1..Len(s) : s[i] = "\n"}
        n == Cardinality(P)
        pos == [k \in 1..n |-> CHOOSE i \in P : Cardinality({j \in P : j <= i}) = k]
    IN  [k \in 1..(n + 1) |->
            SubSeq(s, IF k = 1 THEN 1 ELSE pos[k - 1] + 1,
                      IF k = n + 1 THEN Len(s) ELSE pos[k] - 1)]

\* '\n'.join(lines)
RECURSIVE JoinLines(_)
JoinLines(lines) ==
    IF Len(lines) = 0 THEN <<>>
    ELSE IF Len(lines) = 1 THEN lines[1]
    ELSE lines[1] \o <<"\n">> \o JoinLines(Tail(lines))

(***************************************************************************)
(* GroqService._enforce_character_limit                                    *)
(***************************************************************************)
\* line 127 skipping only a '#' on its own
IsIncompleteHashtagBare(line) == StartsWith(line, <<"#">>) /\ Len(line) < HashtagMinLen - 1

\* line 127: the lines the loop skips
IsIncompleteHashtag(line) == StartsWith(line, <<"#">>) /\ Len(line) < HashtagMinLen

\* line 118 cutting before the sentence end instead of after it
SmartTruncateBeforeEnding(content, max_chars) ==
    LET truncated == Prefix(content, max_chars)
        last_period == RFind(truncated, ".")
        last_question == RFind(truncated, "?")
        last_exclamation == RFind(truncated, "!")
        best_ending == Max2(last_period, Max2(last_question, last_exclamation))
    IN  IF best_ending > max_chars - SentenceWindow
        THEN Prefix(content, best_ending)
        ELSE truncated

\* line 117 taking a sentence end at max_chars - 200 as well
SmartTruncateInclusive(content, max_chars) ==
    LET truncated == Prefix(content, max_chars)
        last_period == RFind(truncated, ".")
        last_question == RFind(truncated, "?")
        last_exclamation == RFind(truncated, "!")
        best_ending == Max2(last_period, Max2(last_question, last_exclamation))
    IN  IF best_ending >= max_chars - SentenceWindow
        THEN Prefix(content, best_ending + 1)
        ELSE truncated

\* lines 107-118: the sentence-aware cut of a text longer than max_chars
SmartTruncate(content, max_chars) ==
    LET truncated == Prefix(content, max_chars)
        last_period == RFind(truncated, ".")
        last_question == RFind(truncated, "?")
        last_exclamation == RFind(truncated, "!")
        best_ending == Max2(last_period, Max2(last_question, last_exclamation))
    IN  IF best_ending > max_chars - SentenceWindow
        THEN Prefix(content, best_ending + 1)
        ELSE truncated

\* lines 123-131: drop the incomplete hashtag lines and rejoin
RemoveIncompleteHashtags(truncated) ==
    JoinLines(SelectSeq(SplitLines(truncated), LAMBDA line : ~IsIncompleteHashtag(line)))

\* the continuation note added without the headroom of line 134
AddContinuationNoHeadroom(truncated, max_chars) ==
    IF Len(truncated) < max_chars
    THEN truncated \o ContinuationMarker
    ELSE truncated

\* line 134 appending also at exactly max_chars - 50
AddContinuationInclusive(truncated, max_chars) ==
    IF Len(truncated) <= max_chars - Headroom
    THEN truncated \o ContinuationMarker
    ELSE truncated

\* lines 134-135: the continuation note, if space allows
AddContinuation(truncated, max_chars) ==
    IF Len(truncated) < max_chars - Headroom
    THEN truncated \o ContinuationMarker
    ELSE truncated

\* the early return of line 101 taken only below max_chars
EnforceCharacterLimitStrict(content, max_chars) ==
    IF Len(content) < max_chars
    THEN content
    ELSE AddContinuation(
             RemoveIncompleteHashtags(SmartTruncate(content, max_chars)),
             max_chars)

\* lines 99-137
EnforceCharacterLimit(content, max_chars) ==
    IF Len(content) <= max_chars
    THEN content
    ELSE AddContinuation(
             RemoveIncompleteHashtags(SmartTruncate(content, max_chars)),
             max_chars)

(***************************************************************************)
(* GroqService._clean_response                                             *)
(***************************************************************************)
\* lines 295-317
instruction_phrases ==
    <<
      <<"H","e","r","e","'","s"," ","a"," ","L","i","n","k","e","d","I","n",
        " ","p","o","s","t"," ","a","b","o","u","t">>,
      <<"H","e","r","e","'","s"," ","a"," ","p","r","o","f","e","s","s","i",
        "o","n","a","l"," ","L","i","n","k","e","d","I","n"," ","p","o","s",
        "t">>,
      <<"L","i","n","k","e","d","I","n"," ","p","o","s","t",":">>,
      <<"C","o","n","t","e","n","t"," ","R","e","q","u","i","r","e","m","e",
        "n","t","s",":">>,
      <<"R","E","Q","U","I","R","E","M","E","N","T","S",":">>,
      <<"I","n","s","t","r","u","c","t","i","o","n","s",":">>,
      <<"W","r","i","t","e"," ","t","h","e"," ","L","i","n","k","e","d","I",
        "n"," ","p","o","s","t",":">>,
      <<"G","e","n","e","r","a","t","e"," ","t","h","e"," ","p","o","s","t",
        " ","c","o","n","t","e","n","t"," ","n","o","w",":">>,
      <<"P","o","s","t"," ","c","o","n","t","e","n","t",":">>,
      <<"C","R","I","T","I","C","A","L",":">>,
      <<"L","e","n","g","t","h",":">>,
      <<"T","o","n","e",":">>,
      <<"F","o","c","u","s",":">>,
      <<"T","a","r","g","e","t"," ","a","u","d","i","e","n","c","e",":">>,
      <<"E","n","d"," ","w","i","t","h",":">>,
      <<"I","n","c","l","u","d","e"," ","3","-","4">>,
      <<"-"," ","W","r","i","t","e">>,
      <<"-"," ","U","s","e">>,
      <<"-"," ","I","n","c","l","u","d","e">>,
      <<"-"," ","P","r","o","v","i","d","e">>,
      <<"-"," ","S","o","u","n","d"," ","l","i","k","e">>
    >>

\* line 328: phrase.lower(), for each phrase
lowered_phrases == [k \in 1..Len(instruction_phrases) |-> Lower(instruction_phrases[k])]

\* lines 326-330: the line contains an instruction phrase, ignoring case
HasInstructionPhraseCaseSensitive(line) ==
    \E k \in 1..Len(lowered_phrases) : Contains(line, lowered_phrases[k])

\* lines 326-330: the line contains an instruction phrase, ignoring case
HasInstructionPhrase(line) ==
    LET lowered == Lower(line)
    IN  \E k \in 1..Len(lowered_phrases) : Contains(lowered, lowered_phrases[k])

\* line 340: the line looks like prompt formatting
IsShortDashLineEight(line) == StartsWith(line, <<"-">>) /\ TokenCount(line) <= 8

\* line 340: the line looks like prompt formatting
IsShortDashLine(line) == StartsWith(line, <<"-">>) /\ TokenCount(line) < 8

\* lines 322-343: the loop over the lines, cleaned_lines being the lines kept so far
RECURSIVE CleanLines(_, _)
CleanLines(lines, cleaned_lines) ==
    IF Len(lines) = 0 THEN cleaned_lines
    ELSE LET line == Strip(Head(lines))
         IN  IF HasInstructionPhrase(line) THEN CleanLines(Tail(lines), cleaned_lines)
             ELSE IF Len(line) = 0 /\ Len(cleaned_lines) = 0
                  THEN CleanLines(Tail(lines), cleaned_lines)
             ELSE IF IsShortDashLine(line) THEN CleanLines(Tail(lines), cleaned_lines)
             ELSE CleanLines(Tail(lines), Append(cleaned_lines, line))

\* lines 319-352
CleanResponse(content) == Strip(JoinLines(CleanLines(SplitLines(content), <<>>)))

\* groq_service.py:349  len(final_content) < 50
MinCleanedLen == 50

\* lines 349-350: the text seems too short after cleaning
SeemsTooShortNonEmpty(text) == 0 < Len(text) /\ Len(text) < MinCleanedLen

\* lines 349-350: the text seems too short after cleaning
SeemsTooShort(text) == Len(text) < MinCleanedLen

(***************************************************************************)
(* Python values.                                                          *)
(***************************************************************************)
\* None, where a text is optional: no text holds a many-character element
PyNone == <<"None">>

\* bool(x) of an optional text
Truthy(x) == x # PyNone /\ Len(x) > 0

\* str(n) of a natural number
RECURSIVE Digits(_)
Digits(n) ==
    LET d == <<"0", "1", "2", "3", "4", "5", "6", "7", "8", "9">>
    IN  IF n < 10 THEN <<d[n + 1]>> ELSE Digits(n \div 10) \o <<d[(n % 10) + 1]>>

(***************************************************************************)
(* GroqService._build_prompt                                               *)
(***************************************************************************)
\* lines 151-157: topic_expertise, in the order of the dict literal
topic_expertise ==
    <<
      [key |->
          <<"a","i"," ","a","g","e","n","t">>,
       guidance |->
          <<"D","i","s","c","u","s","s"," ","d","i","f","f","e","r","e","n",
            "t"," ","t","y","p","e","s"," ","o","f"," ","A","I"," ","a","g",
            "e","n","t","s"," ","(","r","e","a","c","t","i","v","e",","," ",
            "d","e","l","i","b","e","r","a","t","i","v","e",","," ","l","e",
            "a","r","n","i","n","g",","," ","c","o","l","l","a","b","o","r",
            "a","t","i","v","e",")",","," ","s","p","e","c","i","f","i","c",
            " ","p","l","a","t","f","o","r","m","s"," ","l","i","k","e"," ",
            "O","p","e","n","A","I"," ","G","P","T","s",","," ","M","i","c",
            "r","o","s","o","f","t"," ","C","o","p","i","l","o","t",","," ",
            "r","e","a","l"," ","b","u","s","i","n","e","s","s"," ","a","p",
            "p","l","i","c","a","t","i","o","n","s",","," ","i","m","p","l",
            "e","m","e","n","t","a","t","i","o","n"," ","s","t","r","a","t",
            "e","g","i","e","s",","," ","a","n","d"," ","m","e","a","s","u",
            "r","a","b","l","e"," ","R","O","I">>],
      [key |->
          <<"a","r","t","i","f","i","c","i","a","l"," ","i","n","t","e","l",
            "l","i","g","e","n","c","e">>,
       guidance |->
          <<"C","o","v","e","r"," ","c","u","r","r","e","n","t"," ","A","I",
            " ","t","r","e","n","d","s",","," ","s","p","e","c","i","f","i",
            "c"," ","t","e","c","h","n","o","l","o","g","i","e","s"," ","(",
            "G","P","T",","," ","C","l","a","u","d","e",","," ","M","i","d",
            "j","o","u","r","n","e","y",")",","," ","r","e","a","l"," ","c",
            "o","m","p","a","n","y"," ","c","a","s","e"," ","s","t","u","d",
            "i","e","s",","," ","p","r","a","c","t","i","c","a","l"," ","a",
            "p","p","l","i","c","a","t","i","o","n","s"," ","a","c","r","o",
            "s","s"," ","i","n","d","u","s","t","r","i","e","s",","," ","e",
            "t","h","i","c","a","l"," ","c","o","n","s","i","d","e","r","a",
            "t","i","o","n","s",","," ","a","n","d"," ","f","u","t","u","r",
            "e"," ","p","r","e","d","i","c","t","i","o","n","s">>],
      [key |->
          <<"m","a","c","h","i","n","e"," ","l","e","a","r","n","i","n","g">>,
       guidance |->
          <<"E","x","p","l","a","i","n"," ","M","L"," ","t","y","p","e","s",
            " ","(","s","u","p","e","r","v","i","s","e","d",","," ","u","n",
            "s","u","p","e","r","v","i","s","e","d",","," ","r","e","i","n",
            "f","o","r","c","e","m","e","n","t",")",","," ","s","p","e","c",
            "i","f","i","c"," ","t","o","o","l","s"," ","(","T","e","n","s",
            "o","r","F","l","o","w",","," ","P","y","T","o","r","c","h",",",
            " ","s","c","i","k","i","t","-","l","e","a","r","n",")",","," ",
            "r","e","a","l","-","w","o","r","l","d"," ","a","p","p","l","i",
            "c","a","t","i","o","n","s",","," ","d","a","t","a"," ","r","e",
            "q","u","i","r","e","m","e","n","t","s",","," ","c","a","r","e",
            "e","r"," ","p","a","t","h","s",","," ","a","n","d"," ","b","u",
            "s","i","n","e","s","s"," ","i","m","p","a","c","t">>],
      [key |->
          <<"p","r","o","g","r","a","m","m","i","n","g">>,
       guidance |->
          <<"D","i","s","c","u","s","s"," ","m","o","d","e","r","n"," ","f",
            "r","a","m","e","w","o","r","k","s",","," ","s","p","e","c","i",
            "f","i","c"," ","l","a","n","g","u","a","g","e","s"," ","a","n",
            "d"," ","t","h","e","i","r"," ","u","s","e"," ","c","a","s","e",
            "s",","," ","d","e","v","e","l","o","p","m","e","n","t"," ","b",
            "e","s","t"," ","p","r","a","c","t","i","c","e","s",","," ","e",
            "m","e","r","g","i","n","g"," ","t","r","e","n","d","s"," ","(",
            "A","I","-","a","s","s","i","s","t","e","d"," ","c","o","d","i",
            "n","g",")",","," ","c","a","r","e","e","r"," ","a","d","v","i",
            "c","e",","," ","a","n","d"," ","p","r","o","d","u","c","t","i",
            "v","i","t","y"," ","t","o","o","l","s">>],
      [key |->
          <<"d","a","t","a"," ","s","c","i","e","n","c","e">>,
       guidance |->
          <<"C","o","v","e","r"," ","t","h","e"," ","f","u","l","l"," ","d",
            "a","t","a"," ","s","c","i","e","n","c","e"," ","p","i","p","e",
            "l","i","n","e",","," ","s","p","e","c","i","f","i","c"," ","t",
            "o","o","l","s"," ","a","n","d"," ","p","l","a","t","f","o","r",
            "m","s",","," ","r","e","a","l"," ","p","r","o","j","e","c","t",
            " ","e","x","a","m","p","l","e","s",","," ","b","u","s","i","n",
            "e","s","s"," ","i","m","p","a","c","t"," ","m","e","a","s","u",
            "r","e","m","e","n","t",","," ","c","a","r","e","e","r"," ","p",
            "a","t","h","s",","," ","a","n","d"," ","i","n","d","u","s","t",
            "r","y"," ","a","p","p","l","i","c","a","t","i","o","n","s">>]
    >>

\* line 161: the guidance when no key matches
generic_guidance ==
    <<"P","r","o","v","i","d","e"," ","d","e","t","a","i","l","e","d",",",
      " ","e","x","p","e","r","t","-","l","e","v","e","l"," ","i","n","s",
      "i","g","h","t","s"," ","w","i","t","h"," ","s","p","e","c","i","f",
      "i","c"," ","e","x","a","m","p","l","e","s",","," ","t","o","o","l",
      "s",","," ","c","o","m","p","a","n","i","e","s",","," ","a","n","d",
      " ","a","c","t","i","o","n","a","b","l","e"," ","a","d","v","i","c",
      "e">>

\* lines 169-173
length_specs ==
    ("short" :>
        <<"1","-","2"," ","c","o","n","c","i","s","e"," ","p","a","r","a",
          "g","r","a","p","h","s"," ","(","a","i","m"," ","f","o","r"," ",
          "4","0","0","-","8","0","0"," ","c","h","a","r","a","c","t","e",
          "r","s"," ","t","o","t","a","l",")">>) @@
    ("medium" :>
        <<"2","-","3"," ","f","o","c","u","s","e","d"," ","p","a","r","a",
          "g","r","a","p","h","s"," ","(","a","i","m"," ","f","o","r"," ",
          "1","5","0","0","-","2","5","0","0"," ","c","h","a","r","a","c",
          "t","e","r","s"," ","t","o","t","a","l",")">>) @@
    ("long" :>
        <<"3","-","4"," ","d","e","t","a","i","l","e","d"," ","p","a","r",
          "a","g","r","a","p","h","s"," ","(","a","i","m"," ","f","o","r",
          " ","2","5","0","0","-","2","8","0","0"," ","c","h","a","r","a",
          "c","t","e","r","s"," ","t","o","t","a","l",")">>)

\* lines 175-181
tone_specs ==
    ("professional" :>
        <<"a","u","t","h","o","r","i","t","a","t","i","v","e"," ","a","n",
          "d"," ","e","x","p","e","r","t","-","l","e","v","e","l">>) @@
    ("casual" :>
        <<"c","o","n","v","e","r","s","a","t","i","o","n","a","l"," ","b",
          "u","t"," ","k","n","o","w","l","e","d","g","e","a","b","l","e">>) @@
    ("inspirational" :>
        <<"m","o","t","i","v","a","t","i","n","g"," ","a","n","d"," ","f",
          "o","r","w","a","r","d","-","t","h","i","n","k","i","n","g">>) @@
    ("educational" :>
        <<"i","n","f","o","r","m","a","t","i","v","e"," ","a","n","d"," ",
          "t","e","a","c","h","i","n","g","-","f","o","c","u","s","e","d">>) @@
    ("promotional" :>
        <<"p","e","r","s","u","a","s","i","v","e"," ","a","n","d"," ","b",
          "e","n","e","f","i","t","-","f","o","c","u","s","e","d">>)

\* lines 184-215: the fixed texts of the prompt, in the order they are used
PromptParts ==
    [head |->
       <<"Y","o","u"," ","a","r","e"," ","a"," ","r","e","c","o","g","n","i",
         "z","e","d"," ","e","x","p","e","r","t"," ","w","r","i","t","i","n",
         "g"," ","a"," ","L","i","n","k","e","d","I","n"," ","p","o","s","t",
         " ","a","b","o","u","t"," ","\"">>,
     length |->
       <<"\"",".","\n","\n","C","R","I","T","I","C","A","L"," ","R","E","Q",
         "U","I","R","E","M","E","N","T","S",":","\n","-"," ","M","A","X","I",
         "M","U","M"," ","2","9","0","0"," ","c","h","a","r","a","c","t","e",
         "r","s"," ","t","o","t","a","l"," ","(","L","i","n","k","e","d","I",
         "n"," ","l","i","m","i","t"," ","i","s"," ","3","0","0","0",","," ",
         "s","t","a","y"," ","u","n","d","e","r"," ","f","o","r"," ","s","a",
         "f","e","t","y",")","\n","-"," ","L","e","n","g","t","h",":"," ">>,
     tone |->
       <<"\n","-"," ","T","o","n","e",":"," ">>,
     focus |->
       <<"\n","-"," ","F","o","c","u","s",":"," ">>,
     rules |->
       <<"\n","-"," ","I","n","c","l","u","d","e"," ","s","p","e","c","i","f",
         "i","c"," ","c","o","m","p","a","n","y"," ","n","a","m","e","s",",",
         " ","t","o","o","l","s",","," ","s","t","a","t","i","s","t","i","c",
         "s",","," ","o","r"," ","r","e","a","l"," ","e","x","a","m","p","l",
         "e","s","\n","-"," ","P","r","o","v","i","d","e"," ","a","c","t","i",
         "o","n","a","b","l","e"," ","i","n","s","i","g","h","t","s"," ","p",
         "r","o","f","e","s","s","i","o","n","a","l","s"," ","c","a","n"," ",
         "i","m","m","e","d","i","a","t","e","l","y"," ","u","s","e","\n","-",
         " ","U","s","e"," ","p","r","o","f","e","s","s","i","o","n","a","l",
         " ","L","i","n","k","e","d","I","n"," ","f","o","r","m","a","t","t",
         "i","n","g"," ","w","i","t","h"," ","l","i","n","e"," ","b","r","e",
         "a","k","s","\n","-"," ","S","o","u","n","d"," ","l","i","k","e"," ",
         "a"," ","s","u","b","j","e","c","t"," ","m","a","t","t","e","r"," ",
         "e","x","p","e","r","t"," ","w","h","o"," ","h","a","s"," ","d","e",
         "e","p"," ","h","a","n","d","s","-","o","n"," ","e","x","p","e","r",
         "i","e","n","c","e","\n","\n","I","M","P","O","R","T","A","N","T",":",
         " ","K","e","e","p"," ","t","h","e"," ","p","o","s","t"," ","c","o",
         "n","c","i","s","e"," ","a","n","d"," ","w","i","t","h","i","n"," ",
         "L","i","n","k","e","d","I","n","'","s"," ","c","h","a","r","a","c",
         "t","e","r"," ","l","i","m","i","t","."," ","Q","u","a","l","i","t",
         "y"," ","o","v","e","r"," ","q","u","a","n","t","i","t","y",".">>,
     audience |->
       <<"\n","-"," ","T","a","r","g","e","t"," ","a","u","d","i","e","n","c",
         "e",":"," ">>,
     end_with |->
       <<"\n","-"," ","E","n","d"," ","w","i","t","h",":"," ">>,
     end_question |->
       <<"\n","-"," ","E","n","d"," ","w","i","t","h"," ","t","h","i","s"," ",
         "q","u","e","s","t","i","o","n",":"," ">>,
     hashtags_head |->
       <<"\n","-"," ","I","n","c","l","u","d","e"," ","3","-","4"," ","s","p",
         "e","c","i","f","i","c"," ","h","a","s","h","t","a","g","s"," ","r",
         "e","l","a","t","e","d"," ","t","o"," ">>,
     hashtags_tail |->
       <<" ","(","k","e","e","p"," ","h","a","s","h","t","a","g","s"," ","s",
         "h","o","r","t",")">>,
     close |->
       <<"\n","\n","W","r","i","t","e"," ","a"," ","c","o","m","p","e","l","l",
         "i","n","g"," ","L","i","n","k","e","d","I","n"," ","p","o","s","t",
         " ","t","h","a","t"," ","s","t","a","y","s"," ","u","n","d","e","r",
         " ","2","9","0","0"," ","c","h","a","r","a","c","t","e","r","s",":">>]

\* lines 204-209: cta_options
CtaOptions(topic) ==
    <<
      <<"W","h","a","t","'","s"," ","y","o","u","r"," ","e","x","p","e",
          "r","i","e","n","c","e"," ","w","i","t","h"," ">> \o
        topic \o
        <<"?">>,
      <<"H","o","w"," ","a","r","e"," ","y","o","u"," ","i","m","p","l",
          "e","m","e","n","t","i","n","g"," ">> \o
        topic \o
        <<" ","i","n"," ","y","o","u","r"," ","w","o","r","k","?">>,
      <<"W","h","a","t"," ","c","h","a","l","l","e","n","g","e","s"," ",
          "h","a","v","e"," ","y","o","u"," ","f","a","c","e","d"," ","w",
          "i","t","h"," ">> \o
        topic \o
        <<"?">>,
      <<"W","h","i","c","h"," ">> \o
        topic \o
        <<" ","t","o","o","l","s"," ","h","a","v","e"," ","y","o","u"," ",
          "f","o","u","n","d"," ","m","o","s","t"," ","e","f","f","e","c",
          "t","i","v","e","?">>
    >>

\* lines 160-166: the guidance of the last entry whose key matches
SpecificGuidanceLast(topic) ==
    LET matching == {k \in 1..Len(topic_expertise) :
                        Contains(Lower(topic), topic_expertise[k].key)}
    IN  IF matching = {} THEN generic_guidance
        ELSE topic_expertise[CHOOSE k \in matching : \A j \in matching : j <= k].guidance

\* lines 160-166: the loop stops at the first entry whose key matches
SpecificGuidance(topic) ==
    LET matching == {k \in 1..Len(topic_expertise) :
                        Contains(Lower(topic), topic_expertise[k].key)}
    IN  IF matching = {} THEN generic_guidance
        ELSE topic_expertise[CHOOSE k \in matching : \A j \in matching : k <= j].guidance

\* lines 184-215: the prompt for the given guidance; choice is the index
\* random.choice draws among the cta_options
RenderPrompt(args, guidance) ==
    PromptParts.head \o args.topic \o PromptParts.length \o length_specs[args.length] \o
    PromptParts.tone \o tone_specs[args.tone] \o PromptParts.focus \o guidance \o PromptParts.rules \o
    (IF Truthy(args.target_audience)
     THEN PromptParts.audience \o args.target_audience ELSE <<>>) \o
    (IF Truthy(args.call_to_action)
     THEN PromptParts.end_with \o args.call_to_action
     ELSE PromptParts.end_question \o CtaOptions(args.topic)[args.choice]) \o
    (IF args.hashtags
     THEN PromptParts.hashtags_head \o args.topic \o PromptParts.hashtags_tail ELSE <<>>) \o
    PromptParts.close

(***************************************************************************)
(* GroqService: the model catalog and the model selection.                 *)
(***************************************************************************)
key_fast ==
    <<"f","a","s","t">>
key_balanced ==
    <<"b","a","l","a","n","c","e","d">>
key_quality ==
    <<"q","u","a","l","i","t","y">>
key_compound ==
    <<"c","o","m","p","o","u","n","d">>
id_fast ==
    <<"l","l","a","m","a","-","3",".","1","-","8","b","-","i","n","s","t",
      "a","n","t">>
id_balanced ==
    <<"g","e","m","m","a","2","-","9","b","-","i","t">>
id_quality ==
    <<"l","l","a","m","a","-","3",".","3","-","7","0","b","-","v","e","r",
      "s","a","t","i","l","e">>
id_compound ==
    <<"c","o","m","p","o","u","n","d","-","b","e","t","a">>

\* lines 16-21: self.available_models
ModelCatalog ==
    (key_fast :> id_fast) @@ (key_balanced :> id_balanced) @@
    (key_quality :> id_quality) @@ (key_compound :> id_compound)

CatalogIds(catalog) == {catalog[k] : k \in DOMAIN catalog}

\* lines 24-29: the model __init__ selects for the requested name
InitialModel(catalog, requested) ==
    IF Truthy(requested) /\ requested \in CatalogIds(catalog) THEN requested
    ELSE IF Truthy(requested) /\ requested \in DOMAIN catalog THEN catalog[requested]
    ELSE catalog[key_quality]

\* lines 35-39: the model selected after switch_model(model_key)
SwitchedModelVerbatim(catalog, current, model_key) ==
    IF model_key \in DOMAIN catalog THEN catalog[model_key] ELSE model_key

\* lines 35-39: the model selected after switch_model(model_key)
SwitchedModel(catalog, current, model_key) ==
    IF model_key \in DOMAIN catalog THEN catalog[model_key] ELSE current

(***************************************************************************)
(* GroqService.generate_post_content: the error patterns and the advisory. *)
(***************************************************************************)
kw_model ==
    <<"m","o","d","e","l">>
kw_decommissioned ==
    <<"d","e","c","o","m","m","i","s","s","i","o","n","e","d">>
kw_deprecated ==
    <<"d","e","p","r","e","c","a","t","e","d">>
kw_rate ==
    <<"r","a","t","e">>
kw_quota ==
    <<"q","u","o","t","a">>
kw_429 ==
    <<"4","2","9">>

\* line 71 without the .lower() calls
IsModelErrorCaseSensitive(msg) ==
    /\ Contains(msg, kw_model)
    /\ (Contains(msg, kw_decommissioned) \/ Contains(msg, kw_deprecated))

\* line 71
IsModelError(msg) ==
    /\ Contains(Lower(msg), kw_model)
    /\ (Contains(Lower(msg), kw_decommissioned) \/ Contains(Lower(msg), kw_deprecated))

\* line 86 without the '429' test
IsRateLimitErrorNoStatus(msg) ==
    \/ Contains(Lower(msg), kw_rate)
    \/ Contains(Lower(msg), kw_quota)

\* line 86
IsRateLimitError(msg) ==
    \/ Contains(Lower(msg), kw_rate)
    \/ Contains(Lower(msg), kw_quota)
    \/ Contains(msg, kw_429)

\* lines 87-95: the f-string, in three pieces around {topic} and {self.model_name}
AdvisoryHead ==
    <<"U+26A0","U+FE0F"," ","R","a","t","e"," ","l","i","m","i","t"," ","r",
      "e","a","c","h","e","d"," ","f","o","r"," ","G","r","o","q"," ","A",
      "P","I",".","\n","P","l","e","a","s","e"," ","w","a","i","t"," ","a",
      " ","m","o","m","e","n","t"," ","b","e","f","o","r","e"," ","g","e",
      "n","e","r","a","t","i","n","g"," ","m","o","r","e"," ","c","o","n",
      "t","e","n","t",".","\n","\n","T","o","p","i","c"," ","r","e","q","u",
      "e","s","t","e","d",":"," ">>
AdvisoryMid ==
    <<"\n","\n","C","u","r","r","e","n","t"," ","m","o","d","e","l",":"," ">>
AdvisoryTail ==
    <<"\n","T","r","y"," ","s","w","i","t","c","h","i","n","g"," ","t","o",
      " ","a"," ","f","a","s","t","e","r"," ","m","o","d","e","l"," ","l",
      "i","k","e"," ","'","f","a","s","t","'"," ","f","o","r"," ","h","i",
      "g","h","e","r"," ","r","a","t","e"," ","l","i","m","i","t","s",".",
      "\n","\n","V","i","s","i","t",":"," ","h","t","t","p","s",":","/","/",
      "c","o","n","s","o","l","e",".","g","r","o","q",".","c","o","m","/",
      "d","o","c","s","/","r","a","t","e","-","l","i","m","i","t","s"," ",
      "f","o","r"," ","m","o","r","e"," ","i","n","f","o",".">>

RateLimitAdvisory(topic, current_model) ==
    AdvisoryHead \o topic \o AdvisoryMid \o current_model \o AdvisoryTail

\* line 76 selecting the default tier instead of the fast one
FallbackModelQuality(catalog) == catalog[key_quality]

\* line 76 reading the catalog under the wrong key
FallbackModelBalanced(catalog) == catalog[key_balanced]

\* line 76: the model the fallback retry selects
FallbackModel(catalog) == catalog[key_fast]

\* line 83 left out: the fallback model stays selected
RestoredModelKept(original_model, current) == current

\* line 83: the model selected once the fallback retry has failed
RestoredModel(original_model, current) == original_model

(***************************************************************************)
(* GroqService._generate_with_groq                                         *)
(*                                                                         *)
(* What the provider call (lines 240-248, 264-273) yields is an outcome:   *)
(*   [kind |-> "text", text |-> t]   a response whose first choice holds t *)
(*   [kind |-> "no_choices"]         a response without choices            *)
(*   [kind |-> "null_content"]       a first choice whose content is None  *)
(*   [kind |-> "error", msg |-> m]   the client raised, str(e) = m         *)
(***************************************************************************)
\* line 285
EmptyResponseMessage ==
    <<"E","m","p","t","y"," ","r","e","s","p","o","n","s","e"," ","f","r",
      "o","m"," ","G","r","o","q"," ","A","P","I">>
\* line 276: None.strip()
NoneStripMessage ==
    <<"'","N","o","n","e","T","y","p","e","'"," ","o","b","j","e","c","t",
      " ","h","a","s"," ","n","o"," ","a","t","t","r","i","b","u","t","e",
      " ","'","s","t","r","i","p","'">>
\* line 289
GroqErrorPrefix ==
    <<"G","r","o","q"," ","A","P","I"," ","e","r","r","o","r",":"," ">>

TextOutcome(t) == [kind |-> "text", text |-> t, msg |-> <<>>]

ErrorOutcome(m) == [kind |-> "error", text |-> <<>>, msg |-> m]

NoChoicesOutcome == [kind |-> "no_choices", text |-> <<>>, msg |-> <<>>]

NullContentOutcome == [kind |-> "null_content", text |-> <<>>, msg |-> <<>>]

\* str(e) of the exception caught at line 287
CaughtMessage(outcome) ==
    CASE outcome.kind = "error" -> outcome.msg
      [] outcome.kind = "no_choices" -> EmptyResponseMessage
      [] outcome.kind = "null_content" -> NoneStripMessage

\* lines 287-289 re-raising the caught exception as it is
GenerateWithGroqUnwrapped(outcome) ==
    IF outcome.kind = "text"
    THEN [ok |-> TRUE, text |-> CleanResponse(Strip(outcome.text)), msg |-> <<>>]
    ELSE [ok |-> FALSE, text |-> <<>>, msg |-> CaughtMessage(outcome)]

\* lines 287-289 returning an empty text instead of raising
GenerateWithGroqSwallowed(outcome) ==
    IF outcome.kind = "text"
    THEN [ok |-> TRUE, text |-> CleanResponse(Strip(outcome.text)), msg |-> <<>>]
    ELSE [ok |-> TRUE, text |-> <<>>, msg |-> <<>>]

\* line 279 left out: the stripped text returned as it came
GenerateWithGroqUncleaned(outcome) ==
    IF outcome.kind = "text"
    THEN [ok |-> TRUE, text |-> Strip(outcome.text), msg |-> <<>>]
    ELSE [ok |-> FALSE, text |-> <<>>, msg |-> GroqErrorPrefix \o CaughtMessage(outcome)]

\* lines 275-289: the cleaned text returned, or the message of the exception raised
GenerateWithGroq(outcome) ==
    IF outcome.kind = "text"
    THEN [ok |-> TRUE, text |-> CleanResponse(Strip(outcome.text)), msg |-> <<>>]
    ELSE [ok |-> FALSE, text |-> <<>>, msg |-> GroqErrorPrefix \o CaughtMessage(outcome)]

(***************************************************************************)
(* LinkedInService.create_post                                             *)
(***************************************************************************)
\* linkedin_service.py:54
PlatformLimit == 3000
\* linkedin_service.py:57
PublishCut == 2950
\* linkedin_service.py:63
PublishGoodEnding == 2800

\* line 54 comparing one character too high
PublishTextLate(content) ==
    IF Len(content) > PlatformLimit + 1
    THEN LET truncated == Prefix(content, PublishCut)
             last_period == RFind(truncated, ".")
             last_question == RFind(truncated, "?")
             last_exclamation == RFind(truncated, "!")
             best_ending == Max2(last_period, Max2(last_question, last_exclamation))
         IN  IF best_ending > PublishGoodEnding
             THEN Prefix(content, best_ending + 1)
             ELSE truncated
    ELSE content

\* lines 54-66: the text put into the post
PublishText(content) ==
    IF Len(content) > PlatformLimit
    THEN LET truncated == Prefix(content, PublishCut)
             last_period == RFind(truncated, ".")
             last_question == RFind(truncated, "?")
             last_exclamation == RFind(truncated, "!")
             best_ending == Max2(last_period, Max2(last_question, last_exclamation))
         IN  IF best_ending > PublishGoodEnding
             THEN Prefix(content, best_ending + 1)
             ELSE truncated
    ELSE content

UrnPrefix ==
    <<"u","r","n",":","l","i",":","p","e","r","s","o","n",":">>

\* lines 72-75
AuthorUrnAnywhere(person_id) ==
    IF ~Contains(person_id, UrnPrefix) THEN UrnPrefix \o person_id ELSE person_id

\* lines 72-75
AuthorUrn(person_id) ==
    IF ~StartsWith(person_id, UrnPrefix) THEN UrnPrefix \o person_id ELSE person_id

\* lines 77-91: post_data, as far as it varies
PostData(content, person_id) ==
    [author |-> AuthorUrn(person_id), text |-> PublishText(content)]

(***************************************************************************)
(* What the publish provider answers:                                      *)
(*   [kind |-> "accepted", status, id]       200 or 201 and a JSON body    *)
(*   [kind |-> "rejected", status, text]     any other status, error text  *)
(*   [kind |-> "failed", msg]                the HTTP client raised        *)
(***************************************************************************)
PublishFailedPrefix ==
    <<"L","i","n","k","e","d","I","n"," ","p","o","s","t"," ","c","r","e",
      "a","t","i","o","n"," ","f","a","i","l","e","d",":"," ">>
ContentTooLongHead ==
    <<"L","i","n","k","e","d","I","n"," ","p","o","s","t"," ","c","r","e",
      "a","t","i","o","n"," ","f","a","i","l","e","d",":"," ","C","o","n",
      "t","e","n","t"," ","t","o","o"," ","l","o","n","g"," ","(">>
ContentTooLongTail ==
    <<" ","c","h","a","r","a","c","t","e","r","s",")","."," ","L","i","n",
      "k","e","d","I","n"," ","l","i","m","i","t"," ","i","s"," ","3","0",
      "0","0"," ","c","h","a","r","a","c","t","e","r","s",".">>
kw_text_length ==
    <<"t","e","x","t"," ","l","e","n","g","t","h">>
kw_exceeded ==
    <<"e","x","c","e","e","d","e","d">>
StatusSeparator ==
    <<" ","-"," ">>

\* lines 99-107 and 114-116: str(e) of the exception create_post raises
PublishErrorMessage(answer, text) ==
    IF answer.kind = "rejected"
    THEN IF Contains(answer.text, kw_text_length) /\ Contains(answer.text, kw_exceeded)
         THEN ContentTooLongHead \o Digits(Len(text)) \o ContentTooLongTail
         ELSE PublishFailedPrefix \o Digits(answer.status) \o StatusSeparator \o answer.text
    ELSE answer.msg

(***************************************************************************)
(* main.py: the handlers' answers.                                         *)
(***************************************************************************)
\* main.py:70
TopicRequiredDetail ==
    <<"T","o","p","i","c"," ","i","s"," ","r","e","q","u","i","r","e","d">>
\* main.py:96
FailedToGeneratePrefix ==
    <<"F","a","i","l","e","d"," ","t","o"," ","g","e","n","e","r","a","t",
      "e"," ","c","o","n","t","e","n","t",":"," ">>
\* _build_prompt, line 160: None.lower()
NoneLowerMessage ==
    <<"'","N","o","n","e","T","y","p","e","'"," ","o","b","j","e","c","t",
      " ","h","a","s"," ","n","o"," ","a","t","t","r","i","b","u","t","e",
      " ","'","l","o","w","e","r","'">>

NoText == <<>>

\* no answer yet
NoResponse == [code |-> 0, success |-> FALSE, content |-> NoText, post_id |-> NoText, detail |-> NoText]

\* main.py:84-88, 124-129, 150: a 200 answer carrying content
SuccessResponse(content, post_id) ==
    [code |-> 200, success |-> TRUE, content |-> content, post_id |-> post_id, detail |-> NoText]

\* main.py:70, 94-97, 133, 154: HTTPException(status_code, detail)
HttpError(status_code, detail) ==
    [code |-> status_code, success |-> FALSE, content |-> NoText, post_id |-> NoText, detail |-> detail]

(***************************************************************************)
(* Inputs of the length enforcer.                                          *)
(***************************************************************************)
SmallAlphabet == {"a", ".", "#", "\n"}

SmallTexts == UNION {[1..n -> SmallAlphabet] : n \in 0..MaxSmallLen}

\* a position no character of a text has
NoPos == 0 - 5

\* A text of n characters: filler, a sentence end c at 0-based index p, a
\* newline at q followed by '#', and a one-character '#' line at h.
Pattern(n, p, c, q, h) ==
    Text([i \in 1..n |->
            IF i - 1 = p THEN c
            ELSE IF i - 1 = q THEN "\n"
            ELSE IF i - 1 = q + 1 THEN "#"
            ELSE IF h # NoPos /\ (i - 1 = h \/ i - 1 = h + 2) THEN "\n"
            ELSE IF h # NoPos /\ i - 1 = h + 1 THEN "#"
            ELSE "a"], n)

LongTexts(m) ==
    {Pattern(n, p, c, q, h) :
        n \in {m - 1, m, m + 1, m + 40, m + 150},
        p \in {NoPos, 5, m - 201, m - 200, m - 199, m - 52, m - 51, m - 50,
               m - 2, m - 1, m, m + 1},
        c \in {".", "?", "!"},
        q \in {NoPos, m - 4, m - 3, m - 2, m - 1},
        h \in {NoPos, 10}}

(***************************************************************************)
(* Inputs of the handlers and answers of the two providers.                *)
(***************************************************************************)
\* length of the long topic
LongTopicLen == 2700
\* characters by which the long provider texts exceed DefaultMaxChars
LongTextExcess == 150
\* request slots: requests that may be in flight together
NumSlots == 2

Slots == 1..NumSlots

TopicAi ==
    <<"a","i">>
TopicPadded ==
    <<" ","a","i"," ">>
LongTopic == Text([i \in 1..LongTopicLen |-> "a"], LongTopicLen)

Topics == {PyNone, <<>>, <<" ">>, TopicAi, TopicPadded, LongTopic}

ShortPost ==
    <<"G","r","e","a","t"," ","p","o","s","t"," ","a","b","o","u","t"," ",
      "A","I",".","\n","\n","#","a","i">>
BlankPost ==
    <<" ","\n"," ">>
LeakyPost ==
    <<"H","e","r","e","'","s"," ","a"," ","L","i","n","k","e","d","I","n",
      " ","p","o","s","t"," ","a","b","o","u","t"," ","a","i",":","\n","\n",
      "C","R","I","T","I","C","A","L",":"," ","s","t","a","y"," ","u","n",
      "d","e","r"," ","l","i","m","i","t","\n","R","e","a","l"," ","t","e",
      "x","t"," ","h","e","r","e",".","\n","-"," ","U","s","e"," ","t","o",
      "o","l","s">>
\* a sentence ends 100 characters before the limit
LongPostSentence ==
    Pattern(DefaultMaxChars + LongTextExcess, DefaultMaxChars - 100, ".", NoPos, NoPos)
\* no sentence end, and '#' is the last character within the limit
LongPostHashtag ==
    Pattern(DefaultMaxChars + LongTextExcess, NoPos, ".", DefaultMaxChars - 2, NoPos)
\* longer than the platform limit, its last sentence end early in the text
LongPostEarlyStop ==
    Pattern(PlatformLimit + LongTextExcess, 5, "!", NoPos, NoPos)

\* a leaked instruction line, then more than max_chars characters without a
\* sentence end
LongLeakyPost ==
    <<"C","R","I","T","I","C","A","L",":","\n">>
        \o Pattern(DefaultMaxChars + LongTextExcess, NoPos, ".", NoPos, NoPos)

RawTexts ==
    {ShortPost, BlankPost, LeakyPost, LongPostSentence, LongPostHashtag, LongLeakyPost}

MsgDecommissioned ==
    <<"m","o","d","e","l"," ","d","e","c","o","m","m","i","s","s","i","o",
      "n","e","d">>
MsgDeprecatedUpper ==
    <<"M","O","D","E","L"," ","D","e","p","r","e","c","a","t","e","d">>
MsgTooManyRequests ==
    <<"4","2","9"," ","t","o","o"," ","m","a","n","y"," ","r","e","q","u",
      "e","s","t","s">>
MsgRateLimit ==
    <<"R","a","t","e"," ","l","i","m","i","t"," ","r","e","a","c","h","e",
      "d">>
MsgQuota ==
    <<"Q","u","o","t","a"," ","e","x","c","e","e","d","e","d">>
MsgTimeout ==
    <<"R","e","q","u","e","s","t"," ","t","i","m","e","d"," ","o","u","t",
      ".">>
MsgModelNotFound ==
    <<"m","o","d","e","l"," ","n","o","t"," ","f","o","u","n","d">>
MsgDeprecatedAndRate ==
    <<"m","o","d","e","l"," ","d","e","p","r","e","c","a","t","e","d",",",
      " ","c","a","n","n","o","t"," ","g","e","n","e","r","a","t","e">>

ProviderMessages ==
    {MsgDecommissioned, MsgDeprecatedUpper, MsgTooManyRequests, MsgRateLimit,
     MsgQuota, MsgTimeout, MsgModelNotFound, MsgDeprecatedAndRate}

GenerationOutcomes ==
    {TextOutcome(t) : t \in RawTexts} \cup {ErrorOutcome(m) : m \in ProviderMessages}
        \cup {NoChoicesOutcome, NullContentOutcome}

\* pre-written content of a /post/create request
Contents == {PyNone, <<>>, ShortPost, LongPostSentence, LongPostEarlyStop}

Endpoints == {"generate-content", "post/create", "post/schedule"}

NewRequest(endpoint, topic, content) ==
    [endpoint |-> endpoint, topic |-> topic, content |-> content]

\* content matters to /post/create alone, and topic only when it generates
Requests ==
    {NewRequest(ep, t, PyNone) : ep \in Endpoints, t \in Topics}
        \cup {NewRequest("post/create", t, c) : t \in {PyNone, TopicAi}, c \in Contents}

PostId ==
    <<"u","r","n",":","l","i",":","s","h","a","r","e",":","1">>
RejectTooLong ==
    <<"t","e","x","t"," ","l","e","n","g","t","h"," ","e","x","c","e","e",
      "d","e","d">>
RejectUnauthorized ==
    <<"U","n","a","u","t","h","o","r","i","z","e","d">>

PublishAnswers ==
    {[kind |-> "accepted", status |-> 201, text |-> PostId, msg |-> NoText],
     [kind |-> "rejected", status |-> 422, text |-> RejectTooLong, msg |-> NoText],
     [kind |-> "rejected", status |-> 401, text |-> RejectUnauthorized, msg |-> NoText],
     [kind |-> "failed", status |-> 0, text |-> NoText, msg |-> NoText]}

key_unknown ==
    <<"t","u","r","b","o">>
SwitchKeys == DOMAIN ModelCatalog \cup {key_unknown}

\* settings.linkedin_person_id
linkedin_person_id ==
    <<"a","b","c","1","2","3">>

(***************************************************************************)
(* State.                                                                  *)
(***************************************************************************)
VARIABLES
    enf_pc,         \* "call" before _enforce_character_limit runs, "return" after
    enf_content,    \* its argument content
    enf_max_chars,  \* its argument max_chars
    enf_result,     \* its return value
    pub_pc,         \* "call" before LinkedInService.create_post builds post_data, "posted" after
    pub_content,    \* its argument content
    pub_person_id,  \* its argument person_id
    pub_data,       \* the post_data it hands to session.post
    clean_pc,       \* "call" before _clean_response runs, "return" after
    clean_content,  \* its argument content
    final_content,  \* its return value
    clean_warned,   \* whether it logged "Content seems too short after cleaning"
    prompt_pc,      \* "call" before _build_prompt runs, "return" after
    prompt_args,    \* its arguments, and the index random.choice draws
    specific_guidance,  \* its local specific_guidance
    prompt,         \* its return value
    model_name,        \* GroqService.model_name
    available_models,  \* GroqService.available_models
    pc,              \* per slot: where the handler stands
    request,         \* per slot: the PostRequest
    topic,           \* per slot: generate_post_content's argument topic
    original_model,  \* per slot: generate_post_content's local original_model
    e,               \* per slot: str(e) of the exception caught at line 67
    model_before,    \* per slot: model_name when generate_post_content was entered
    calls,           \* per slot: the provider calls made, each [model, outcome]
    generated,       \* per slot: what generate_post_content returned or raised
    content,         \* per slot: the handler's local content
    sent,            \* per slot: the post_data posted to the publish provider
    answers,         \* per slot: what the publish provider answered
    response         \* per slot: the HTTP answer

enf_vars == <<enf_pc, enf_content, enf_max_chars, enf_result>>

pub_vars == <<pub_pc, pub_content, pub_person_id, pub_data>>

clean_vars == <<clean_pc, clean_content, final_content, clean_warned>>

prompt_vars == <<prompt_pc, prompt_args, specific_guidance, prompt>>

groq_vars == <<model_name, available_models>>

gen_vars == <<topic, original_model, e, model_before, calls, generated>>

handler_vars == <<pc, request, content, sent, answers, response>>

vars == <<enf_vars, pub_vars, clean_vars, prompt_vars, groq_vars, gen_vars, handler_vars>>

NoGenerated == [kind |-> "none", text |-> NoText, msg |-> NoText, selected |-> NoText]

\* generate_post_content returned text: "content" from a provider answer (via the
\* first call or the fallback), "advisory" the rate-limit text
Returned(kind, text, selected) ==
    [kind |-> kind, text |-> text, msg |-> NoText, selected |-> selected]

\* generate_post_content raised an exception whose str() is msg
Raised(msg, selected) ==
    [kind |-> "error", text |-> NoText, msg |-> msg, selected |-> selected]

ServiceIdle ==
    /\ pc = [r \in Slots |-> "idle"]
    /\ request = [r \in Slots |-> NewRequest("none", PyNone, PyNone)]
    /\ topic = [r \in Slots |-> PyNone]
    /\ original_model = [r \in Slots |-> PyNone]
    /\ e = [r \in Slots |-> PyNone]
    /\ model_before = [r \in Slots |-> PyNone]
    /\ calls = [r \in Slots |-> <<>>]
    /\ generated = [r \in Slots |-> NoGenerated]
    /\ content = [r \in Slots |-> PyNone]
    /\ sent = [r \in Slots |-> <<>>]
    /\ answers = [r \in Slots |-> <<>>]
    /\ response = [r \in Slots |-> NoResponse]

EnforceIdle ==
    /\ enf_pc = "idle"
    /\ enf_content = <<>>
    /\ enf_max_chars = 0
    /\ enf_result = <<>>

NoPostData == [author |-> NoText, text |-> NoText]

PublishIdle ==
    /\ pub_pc = "idle"
    /\ pub_content = <<>>
    /\ pub_person_id = <<>>
    /\ pub_data = NoPostData

NoPromptArgs ==
    [topic |-> NoText, tone |-> "none", length |-> "none", hashtags |-> FALSE,
     target_audience |-> PyNone, call_to_action |-> PyNone, choice |-> 0]

CleanIdle ==
    /\ clean_pc = "idle"
    /\ clean_content = <<>>
    /\ final_content = <<>>
    /\ clean_warned = FALSE

PromptIdle ==
    /\ prompt_pc = "idle"
    /\ prompt_args = NoPromptArgs
    /\ specific_guidance = <<>>
    /\ prompt = <<>>

\* main.py:27: GroqService(settings.groq_api_key), no model requested
Init ==
    /\ available_models = ModelCatalog
    /\ model_name = InitialModel(ModelCatalog, PyNone)
    /\ ServiceIdle
    /\ EnforceIdle
    /\ PublishIdle
    /\ CleanIdle
    /\ PromptIdle

AllIdle == \A r \in Slots : pc[r] = "idle"

(***************************************************************************)
(* GroqService.switch_model                                                *)
(***************************************************************************)
SwitchModel(model_key) ==
    /\ model_name' = SwitchedModel(available_models, model_name, model_key)
    /\ UNCHANGED <<available_models, enf_vars, pub_vars, clean_vars, prompt_vars, gen_vars, handler_vars>>

(***************************************************************************)
(* The handlers of main.py, each cut at its awaits.                        *)
(***************************************************************************)
\* linkedin_service.create_post up to the await of session.post (lines 52-98)
PublishSubmit(r, text) ==
    /\ content' = [content EXCEPT ![r] = text]
    /\ sent' = [sent EXCEPT ![r] = Append(@, PostData(text, linkedin_person_id))]
    /\ pc' = [pc EXCEPT ![r] = "publish_submitted"]
    /\ UNCHANGED <<answers, response>>

\* The handler from the point where generate_post_content returns or raises gen,
\* to its answer or to its next await (main.py:82-97, 117-133, 147-154).
HandlerContinue(r, endpoint, gen) ==
    /\ generated' = [generated EXCEPT ![r] = gen]
    /\ IF gen.kind = "error"
       THEN /\ response' = [response EXCEPT ![r] =
                   HttpError(500, IF endpoint = "generate-content"
                                  THEN FailedToGeneratePrefix \o gen.msg
                                  ELSE gen.msg)]
            /\ pc' = [pc EXCEPT ![r] = "responded"]
            /\ UNCHANGED <<content, sent, answers>>
       ELSE IF endpoint = "post/create"
       THEN PublishSubmit(r, gen.text)
       ELSE /\ content' = [content EXCEPT ![r] = gen.text]
            /\ response' = [response EXCEPT ![r] = SuccessResponse(gen.text, NoText)]
            /\ pc' = [pc EXCEPT ![r] = "responded"]
            /\ UNCHANGED <<sent, answers>>

\* generate_post_content up to the await of the first provider call
\* (lines 51-59, 222-273); a topic of None fails in _build_prompt (line 160) with
\* a message that matches neither pattern of lines 71 and 86, and is re-raised.
GenerateEnter(r, endpoint, t) ==
    /\ topic' = [topic EXCEPT ![r] = t]
    /\ model_before' = [model_before EXCEPT ![r] = model_name]
    /\ IF t = PyNone
       THEN HandlerContinue(r, endpoint, Raised(NoneLowerMessage, model_name))
       ELSE /\ pc' = [pc EXCEPT ![r] = "first_submitted"]
            /\ UNCHANGED <<generated, content, sent, answers, response>>

\* A request arrives: the handler runs to its answer or to its first await.
Start(r, req) ==
    /\ pc[r] = "idle"
    /\ request' = [request EXCEPT ![r] = req]
    /\ CASE req.endpoint = "generate-content" ->
                \* main.py:69-80
                IF ~Truthy(req.topic) \/ Strip(req.topic) = <<>>
                THEN /\ response' = [response EXCEPT ![r] = HttpError(400, TopicRequiredDetail)]
                     /\ pc' = [pc EXCEPT ![r] = "responded"]
                     /\ UNCHANGED <<topic, model_before, generated, content, sent, answers>>
                ELSE GenerateEnter(r, req.endpoint, Strip(req.topic))
         [] req.endpoint = "post/create" ->
                \* main.py:106-122
                IF ~Truthy(req.content)
                THEN GenerateEnter(r, req.endpoint, req.topic)
                ELSE /\ PublishSubmit(r, req.content)
                     /\ UNCHANGED <<topic, model_before, generated>>
         [] req.endpoint = "post/schedule" ->
                \* main.py:140-145
                GenerateEnter(r, req.endpoint, req.topic)
    /\ UNCHANGED <<enf_vars, pub_vars, clean_vars, prompt_vars, groq_vars, original_model, e, calls>>

\* The executor thread runs the lambda of lines 242-247 or 266-272: it reads
\* self.model_name and the provider answers with outcome.
GroqCall(r, outcome) ==
    /\ pc[r] \in {"first_submitted", "fallback_submitted"}
    /\ calls' = [calls EXCEPT ![r] = Append(@, [model |-> model_name, outcome |-> outcome])]
    /\ pc' = [pc EXCEPT ![r] = IF pc[r] = "first_submitted" THEN "first_done" ELSE "fallback_done"]
    /\ UNCHANGED <<enf_vars, pub_vars, clean_vars, prompt_vars, groq_vars, topic, original_model, e, model_before,
                   generated, request, content, sent, answers, response>>

\* generate_post_content resumes after the first provider call (lines 59-97)
FirstResume(r) ==
    /\ pc[r] = "first_done"
    /\ \E result \in {GenerateWithGroq(calls[r][1].outcome)} :
           IF result.ok
           THEN /\ HandlerContinue(r, request[r].endpoint,
                       Returned("content",
                                EnforceCharacterLimit(result.text, DefaultMaxChars),
                                model_name))
                /\ UNCHANGED <<model_name, original_model, e>>
           ELSE /\ e' = [e EXCEPT ![r] = result.msg]
                /\ IF IsModelError(result.msg)
                   THEN /\ original_model' = [original_model EXCEPT ![r] = model_name]
                        /\ model_name' = FallbackModel(available_models)
                        /\ pc' = [pc EXCEPT ![r] = "fallback_submitted"]
                        /\ UNCHANGED <<generated, content, sent, answers, response>>
                   ELSE /\ HandlerContinue(r, request[r].endpoint,
                               IF IsRateLimitError(result.msg)
                               THEN Returned("advisory",
                                             RateLimitAdvisory(topic[r], model_name),
                                             model_name)
                               ELSE Raised(result.msg, model_name))
                        /\ UNCHANGED <<model_name, original_model>>
    /\ UNCHANGED <<enf_vars, pub_vars, clean_vars, prompt_vars, available_models, topic, model_before, calls, request>>

\* generate_post_content resumes after the fallback provider call (lines 77-97)
FallbackResume(r) ==
    /\ pc[r] = "fallback_done"
    /\ \E result \in {GenerateWithGroq(calls[r][2].outcome)},
           restored \in {RestoredModel(original_model[r], model_name)} :
           IF result.ok
           THEN /\ HandlerContinue(r, request[r].endpoint,
                       Returned("content",
                                EnforceCharacterLimit(result.text, DefaultMaxChars),
                                model_name))
                /\ UNCHANGED model_name
           ELSE /\ model_name' = restored
                /\ HandlerContinue(r, request[r].endpoint,
                       IF IsRateLimitError(e[r])
                       THEN Returned("advisory",
                                     RateLimitAdvisory(topic[r], restored),
                                     restored)
                       ELSE Raised(e[r], restored))
    /\ UNCHANGED <<enf_vars, pub_vars, clean_vars, prompt_vars, available_models, topic, original_model, e, model_before,
                   calls, request>>

\* The publish provider answers (linkedin_service.py:98-116, main.py:124-133)
PublishReturn(r, answer) ==
    /\ pc[r] = "publish_submitted"
    /\ response' = [response EXCEPT ![r] =
            IF answer.kind = "accepted"
            THEN SuccessResponse(content[r], answer.text)
            ELSE HttpError(500, PublishErrorMessage(answer, sent[r][1].text))]
    /\ pc' = [pc EXCEPT ![r] = "responded"]
    /\ answers' = [answers EXCEPT ![r] = Append(@, answer)]
    /\ UNCHANGED <<enf_vars, pub_vars, clean_vars, prompt_vars, groq_vars, gen_vars, request, content, sent>>

\* The answer has gone out: nothing of the request outlives it.
Retire(r) ==
    /\ pc[r] = "responded"
    /\ pc' = [pc EXCEPT ![r] = "idle"]
    /\ request' = [request EXCEPT ![r] = NewRequest("none", PyNone, PyNone)]
    /\ topic' = [topic EXCEPT ![r] = PyNone]
    /\ original_model' = [original_model EXCEPT ![r] = PyNone]
    /\ e' = [e EXCEPT ![r] = PyNone]
    /\ model_before' = [model_before EXCEPT ![r] = PyNone]
    /\ calls' = [calls EXCEPT ![r] = <<>>]
    /\ generated' = [generated EXCEPT ![r] = NoGenerated]
    /\ content' = [content EXCEPT ![r] = PyNone]
    /\ sent' = [sent EXCEPT ![r] = <<>>]
    /\ answers' = [answers EXCEPT ![r] = <<>>]
    /\ response' = [response EXCEPT ![r] = NoResponse]
    /\ UNCHANGED <<enf_vars, pub_vars, clean_vars, prompt_vars, groq_vars>>

\* One request at a time: a request starts, and the model is switched, only
\* while no other request is in flight.
Next ==
    \/ \E model_key \in SwitchKeys : AllIdle /\ SwitchModel(model_key)
    \/ \E r \in Slots :
          \/ \E req \in Requests : AllIdle /\ Start(r, req)
          \/ \E outcome \in GenerationOutcomes : GroqCall(r, outcome)
          \/ FirstResume(r)
          \/ FallbackResume(r)
          \/ \E answer \in PublishAnswers : PublishReturn(r, answer)
          \/ Retire(r)

Spec == Init /\ [][Next]_vars

(***************************************************************************)
(* The length enforcer alone, on inputs of every shape.                    *)
(***************************************************************************)
InitEnforce ==
    /\ available_models = ModelCatalog
    /\ model_name = InitialModel(ModelCatalog, PyNone)
    /\ ServiceIdle
    /\ enf_pc = "call"
    /\ \/ enf_max_chars \in 0..MaxSmallMax /\ enf_content \in SmallTexts
       \/ enf_max_chars \in {TightMaxChars, MidMaxChars, DefaultMaxChars}
          /\ enf_content \in LongTexts(enf_max_chars)
    /\ enf_result = <<>>
    /\ PublishIdle
    /\ CleanIdle
    /\ PromptIdle

Enforce ==
    /\ enf_pc = "call"
    /\ enf_result' = EnforceCharacterLimit(enf_content, enf_max_chars)
    /\ enf_pc' = "return"
    /\ UNCHANGED <<enf_content, enf_max_chars, pub_vars, clean_vars, prompt_vars, groq_vars, gen_vars, handler_vars>>

NextEnforce == Enforce

SpecEnforce == InitEnforce /\ [][NextEnforce]_vars

(***************************************************************************)
(* The text and author LinkedInService.create_post posts, on contents      *)
(* around its limits.                                                      *)
(***************************************************************************)
\* contents of the lengths around PublishCut and PlatformLimit, with one
\* sentence end around the two windows, or none
PublishTexts ==
    SmallTexts \cup
    {Pattern(n, p, c, NoPos, NoPos) :
        n \in {PublishCut - 1, PublishCut, PublishCut + 1,
               PlatformLimit - 1, PlatformLimit, PlatformLimit + 1, PlatformLimit + 2,
               PlatformLimit + LongTextExcess},
        p \in {NoPos, 5,
               DefaultMaxChars - SentenceWindow - 1, DefaultMaxChars - SentenceWindow,
               DefaultMaxChars - SentenceWindow + 1,
               PublishGoodEnding - 1, PublishGoodEnding, PublishGoodEnding + 1,
               PublishCut - 2, PublishCut - 1, PublishCut, PlatformLimit - 1, PlatformLimit},
        c \in {".", "?", "!"}}

\* a bare person id, one that is a URN already, the empty id, the prefix
\* alone, an id with the prefix doubled, with the prefix after other text, in
\* capitals, and without its last colon
PersonIds ==
    {linkedin_person_id,
     UrnPrefix \o linkedin_person_id,
     <<>>,
     UrnPrefix,
     UrnPrefix \o UrnPrefix \o linkedin_person_id,
     <<"x">> \o UrnPrefix \o linkedin_person_id,
     <<"U","R","N",":","L","I",":","P","E","R","S","O","N",":">> \o linkedin_person_id,
     SubSeq(UrnPrefix, 1, Len(UrnPrefix) - 1) \o linkedin_person_id}

InitPublish ==
    /\ available_models = ModelCatalog
    /\ model_name = InitialModel(ModelCatalog, PyNone)
    /\ ServiceIdle
    /\ EnforceIdle
    /\ pub_pc = "call"
    /\ pub_content \in PublishTexts
    /\ pub_person_id \in PersonIds
    /\ pub_data = NoPostData
    /\ CleanIdle
    /\ PromptIdle

\* linkedin_service.py:52-91
PreparePost ==
    /\ pub_pc = "call"
    /\ pub_data' = PostData(pub_content, pub_person_id)
    /\ pub_pc' = "posted"
    /\ UNCHANGED <<pub_content, pub_person_id, enf_vars, clean_vars, prompt_vars, groq_vars, gen_vars, handler_vars>>

NextPublish == PreparePost

SpecPublish == InitPublish /\ [][NextPublish]_vars

(***************************************************************************)
(* The sanitizer alone, on texts of a few lines of every kind.             *)
(***************************************************************************)
\* most lines of a sanitizer input
MaxCleanLines == 3

\* n filler characters
Filler(n) == Text([i \in 1..n |-> "a"], n)

\* lines of each kind the sanitizer tells apart: blank, padded, with a leak
\* phrase in either case, dash lines of 7 and 8 tokens, an indented dash line,
\* and lines around MinCleanedLen characters
CleanPool ==
    { <<>>,
      <<" ">>,
      <<"a">>,
      <<" ","a"," ">>,
      <<"T","o","n","e",":"," ","a">>,
      <<"x","T","O","N","E",":">>,
      <<"-"," ","a"," ","b"," ","c"," ","d"," ","e"," ","f">>,
      <<"-"," ","a"," ","b"," ","c"," ","d"," ","e"," ","f"," ","g">>,
      <<"\t","-"," ","a">>,
      <<"a"," ","-"," ","u","s","e">>,
      Filler(MinCleanedLen - 1),
      Filler(MinCleanedLen) }

CleanTexts ==
    {JoinLines(ls) : ls \in UNION {[1..n -> CleanPool] : n \in 1..MaxCleanLines}}

InitClean ==
    /\ available_models = ModelCatalog
    /\ model_name = InitialModel(ModelCatalog, PyNone)
    /\ ServiceIdle
    /\ EnforceIdle
    /\ PublishIdle
    /\ PromptIdle
    /\ clean_pc = "call"
    /\ clean_content \in CleanTexts
    /\ final_content = <<>>
    /\ clean_warned = FALSE

\* groq_service.py:291-352
Clean ==
    /\ clean_pc = "call"
    /\ \E text \in {CleanResponse(clean_content)} :
          /\ final_content' = text
          /\ clean_warned' = SeemsTooShort(text)
    /\ clean_pc' = "return"
    /\ UNCHANGED <<clean_content, enf_vars, pub_vars, prompt_vars, groq_vars, gen_vars,
                   handler_vars>>

SpecClean == InitClean /\ [][Clean]_vars

(***************************************************************************)
(* The prompt builder alone, on topics that match none, one or several     *)
(* table entries.                                                          *)
(***************************************************************************)
\* the empty topic, the topic of the spec's example, one that matches no
\* entry, one that matches entries 3 and 1 with the key of entry 3 first, one
\* that matches entries 5 and 4 in capitals, one that matches entry 2, and one
\* that holds no key because its two words are not separated by one space
PromptTopics ==
    {<<>>,
     <<"M","a","c","h","i","n","e"," ","L","e","a","r","n","i","n","g"," ",
       "b","a","s","i","c","s">>,
     <<"r","e","m","o","t","e"," ","w","o","r","k"," ","t","i","p","s">>,
     <<"m","a","c","h","i","n","e"," ","l","e","a","r","n","i","n","g"," ",
       "f","o","r"," ","A","I"," ","a","g","e","n","t","s">>,
     <<"D","A","T","A"," ","S","C","I","E","N","C","E"," ","v","s"," ","p",
       "r","o","g","r","a","m","m","i","n","g">>,
     <<"A","r","t","i","f","i","c","i","a","l"," ","I","n","t","e","l","l",
       "i","g","e","n","c","e">>,
     <<"a","i","-","a","g","e","n","t","s">>}

\* the arguments of _build_prompt: the target audience is None, empty, plain,
\* or quotes the guidance of entry 4; the call to action is None or given
PromptArgs ==
    [topic : PromptTopics, tone : DOMAIN tone_specs, length : DOMAIN length_specs,
     hashtags : BOOLEAN,
     target_audience :
         {PyNone, <<>>,
          <<"d","e","v","e","l","o","p","e","r","s">>,
          topic_expertise[4].guidance},
     call_to_action :
         {PyNone,
          <<"S","h","a","r","e"," ","y","o","u","r"," ","v","i","e","w">>},
     choice : 1..4]

InitPrompt ==
    /\ available_models = ModelCatalog
    /\ model_name = InitialModel(ModelCatalog, PyNone)
    /\ ServiceIdle
    /\ EnforceIdle
    /\ PublishIdle
    /\ CleanIdle
    /\ prompt_pc = "call"
    /\ prompt_args \in PromptArgs
    /\ specific_guidance = <<>>
    /\ prompt = <<>>

\* groq_service.py:139-217
BuildPromptCall ==
    /\ prompt_pc = "call"
    /\ \E guidance \in {SpecificGuidance(prompt_args.topic)} :
          /\ specific_guidance' = guidance
          /\ prompt' = RenderPrompt(prompt_args, guidance)
    /\ prompt_pc' = "return"
    /\ UNCHANGED <<prompt_args, enf_vars, pub_vars, clean_vars, groq_vars, gen_vars,
                   handler_vars>>

SpecPrompt == InitPrompt /\ [][BuildPromptCall]_vars

(***************************************************************************)
(* The service built for any requested model name, with requests in flight *)
(* together: each handler can be resumed at its awaits in any order.       *)
(***************************************************************************)
\* groq_service.py:11-31: GroqService(api_key, model_name)
InitRequested ==
    /\ available_models = ModelCatalog
    /\ model_name \in {InitialModel(ModelCatalog, requested) : requested \in {PyNone, <<>>, key_fast, key_compound,
                            id_balanced, key_unknown}}
    /\ ServiceIdle
    /\ EnforceIdle
    /\ PublishIdle
    /\ CleanIdle
    /\ PromptIdle

\* most requests in flight together
MaxInFlight == 2

\* a request that only generates
InterleavedRequests == {NewRequest("post/schedule", TopicAi, PyNone)}

\* the provider answers with a text or with the model-deprecation error
InterleavedOutcomes == {TextOutcome(ShortPost), ErrorOutcome(MsgDecommissioned)}

\* A request starts while fewer than MaxInFlight are in flight; the model is
\* switched between them.
NextInterleaved ==
    \/ \E model_key \in SwitchKeys : AllIdle /\ SwitchModel(model_key)
    \/ \E r \in Slots :
          \/ \E req \in InterleavedRequests :
                Cardinality({s \in Slots : pc[s] # "idle"}) < MaxInFlight /\ Start(r, req)
          \/ \E outcome \in InterleavedOutcomes : GroqCall(r, outcome)
          \/ FirstResume(r)
          \/ FallbackResume(r)
          \/ Retire(r)

SpecInterleaved == InitRequested /\ [][NextInterleaved]_vars

(***************************************************************************)
(* Claims.                                                                 *)
(***************************************************************************)
\* generate_post_content has returned or raised in request r
Invoked(r) == generated[r].kind # "none"

\* what _generate_with_groq made of the k-th provider answer of request r
Answer(r, k) == GenerateWithGroq(calls[r][k].outcome)

\* the model-deprecation pattern, as the specification words it
MatchesDeprecation(msg) ==
    /\ Contains(Lower(msg), <<"m","o","d","e","l">>)
    /\ \/ Contains(Lower(msg), <<"d","e","c","o","m","m","i","s","s","i","o","n","e","d">>)
       \/ Contains(Lower(msg), <<"d","e","p","r","e","c","a","t","e","d">>)

\* the rate-limit pattern, as the specification words it
MatchesRateLimit(msg) ==
    \/ Contains(Lower(msg), <<"r","a","t","e">>)
    \/ Contains(Lower(msg), <<"q","u","o","t","a">>)
    \/ Contains(msg, <<"4","2","9">>)

\* the first provider call of request r failed
FirstFailed(r) == Len(calls[r]) >= 1 /\ calls[r][1].outcome.kind # "text"

\* the first call failed with the model-deprecation pattern and the fallback
\* call gave a text
FallbackSucceeded(r) ==
    Invoked(r) /\ Len(calls[r]) = 2 /\ calls[r][2].outcome.kind = "text"

\* the first call failed with the model-deprecation pattern and the fallback
\* call failed too
DoubleFailure(r) ==
    Invoked(r) /\ Len(calls[r]) = 2 /\ calls[r][2].outcome.kind # "text"

\* C1: the result of _enforce_character_limit is never longer than max_chars,
\* for every text and every non-negative max_chars, whichever branch is taken
C1_LengthBound ==
    enf_pc = "return" => Len(enf_result) <= enf_max_chars

\* C1 witness: a text longer than the default max_chars was cut at a sentence
\* end and the continuation note was appended
C1_Witness ==
    /\ enf_pc = "return"
    /\ enf_max_chars = DefaultMaxChars
    /\ Len(enf_content) > enf_max_chars
    /\ Len(enf_result) > Len(ContinuationMarker)
    /\ SubSeq(enf_result, Len(enf_result) - Len(ContinuationMarker) + 1, Len(enf_result))
           = ContinuationMarker

\* C2: a text of length <= max_chars is returned unchanged
C2_ShortUnchanged ==
    (enf_pc = "return" /\ Len(enf_content) <= enf_max_chars)
        => enf_result = enf_content

\* C2 witness: a text of exactly the default max_chars that holds a one-character
\* '#' line was returned as it was
C2_Witness ==
    /\ enf_pc = "return"
    /\ enf_max_chars = DefaultMaxChars
    /\ Len(enf_content) = enf_max_chars
    /\ \E k \in 1..Len(SplitLines(enf_content)) :
           IsIncompleteHashtag(SplitLines(enf_content)[k])
    /\ enf_result = enf_content

\* C3: every text generate_post_content returns as content (normal path,
\* fallback path, rate-limit advisory path) has length <= 2950
C3_ReturnedTextPublishable ==
    \A r \in Slots :
        generated[r].kind \in {"content", "advisory"}
            => Len(generated[r].text) <= DefaultMaxChars

C5_FallbackSelectsDifferentModel ==
    \A r \in Slots :
        FallbackSucceeded(r) =>
            /\ model_name = id_fast
            /\ model_name # model_before[r]
            /\ generated[r].kind = "content"
            /\ generated[r].text = EnforceCharacterLimit(Answer(r, 2).text, DefaultMaxChars)

\* C5 amended: after a successful fallback the selected model is the fast-tier
\* id, which differs from the one selected before the invocation unless that
\* was the fast-tier id already, and the fallback's text is what is returned
C5_FallbackSelectsFast ==
    \A r \in Slots :
        FallbackSucceeded(r) =>
            /\ model_name = id_fast
            /\ generated[r].selected = id_fast
            /\ model_before[r] # id_fast => model_name # model_before[r]
            /\ generated[r].kind = "content"
            /\ generated[r].text = EnforceCharacterLimit(Answer(r, 2).text, DefaultMaxChars)

\* C5 witness: the fallback gave a text after the first call had failed under
\* the default model, and that text went out in the answer
C5_Witness ==
    \E r \in Slots :
        /\ FallbackSucceeded(r)
        /\ model_before[r] = id_quality
        /\ calls[r][2].outcome = TextOutcome(ShortPost)
        /\ response[r].success
        /\ response[r].content = ShortPost

\* C6: when the first call fails with the model-deprecation pattern and the
\* fallback fails too, the model selected afterwards is the one selected before
C6_ModelRestored ==
    \A r \in Slots :
        DoubleFailure(r) =>
            /\ model_name = model_before[r]
            /\ generated[r].selected = model_before[r]

\* C6 witness: both calls failed in an invocation that began under the default
\* model, the second under the fast-tier id
C6_Witness ==
    \E r \in Slots :
        /\ DoubleFailure(r)
        /\ model_before[r] = id_quality
        /\ calls[r][2].model = id_fast
        /\ model_name = id_quality

\* C7: when the first call fails with the model-deprecation pattern only and
\* the fallback fails too, the error raised is the fallback's and carries the
\* messages of both
C7_FallbackErrorPropagated ==
    \A r \in Slots :
        (DoubleFailure(r) /\ ~MatchesRateLimit(Answer(r, 1).msg)) =>
            /\ generated[r].kind = "error"
            /\ Contains(generated[r].msg, CaughtMessage(calls[r][1].outcome))
            /\ Contains(generated[r].msg, CaughtMessage(calls[r][2].outcome))

\* C8 as stated: whenever the first call fails with the rate-limit pattern, the
\* advisory with the topic and the selected model is returned, and
\* /generate-content answers success
C8_RateLimitAlwaysAdvisory ==
    \A r \in Slots :
        (Invoked(r) /\ FirstFailed(r) /\ MatchesRateLimit(Answer(r, 1).msg)) =>
            /\ generated[r].kind = "advisory"
            /\ Contains(generated[r].text, topic[r])
            /\ Contains(generated[r].text, model_name)
            /\ request[r].endpoint = "generate-content" => response[r].success

\* C8 amended: when the first call fails with the rate-limit pattern, and the
\* message does not match the model-deprecation pattern too or the fallback
\* fails as well, the advisory with the topic and the selected model is
\* returned and /generate-content answers success with it; when the fallback
\* gives a text, that text is returned instead
C8_RateLimitAdvisory ==
    \A r \in Slots :
        (Invoked(r) /\ FirstFailed(r) /\ MatchesRateLimit(Answer(r, 1).msg)) =>
            IF FallbackSucceeded(r)
            THEN generated[r].kind = "content"
            ELSE /\ generated[r].kind = "advisory"
                 /\ Len(generated[r].text) > 0
                 /\ Contains(generated[r].text, topic[r])
                 /\ Contains(generated[r].text, model_name)
                 /\ model_name = model_before[r]
                 /\ request[r].endpoint = "generate-content" =>
                        /\ response[r].success
                        /\ response[r].code = 200
                        /\ response[r].content = generated[r].text

\* C8 witness: "429 too many requests" on /generate-content was answered with
\* success and the advisory
C8_Witness ==
    \E r \in Slots :
        /\ request[r].endpoint = "generate-content"
        /\ Len(calls[r]) = 1
        /\ calls[r][1].outcome = ErrorOutcome(MsgTooManyRequests)
        /\ topic[r] = TopicAi
        /\ generated[r].kind = "advisory"
        /\ response[r].success

\* C9 as stated: a provider error matching neither pattern is not retried, no
\* content is returned, the error reaches the caller unchanged and the caller
\* reports a failure
C9_ErrorUnchanged ==
    \A r \in Slots :
        (/\ Invoked(r)
         /\ Len(calls[r]) >= 1
         /\ calls[r][1].outcome.kind = "error"
         /\ ~MatchesDeprecation(calls[r][1].outcome.msg)
         /\ ~MatchesRateLimit(calls[r][1].outcome.msg)) =>
            /\ Len(calls[r]) = 1
            /\ generated[r].kind = "error"
            /\ generated[r].msg = calls[r][1].outcome.msg
            /\ ~response[r].success

\* C9 amended: a provider error matching neither pattern is not retried, no
\* content is returned, the error reaches the caller as a new error whose
\* message is "Groq API error: " followed by the provider's message, and the
\* caller answers 500 with that message in the detail
C9_ErrorWrapped ==
    \A r \in Slots :
        (/\ Invoked(r)
         /\ Len(calls[r]) >= 1
         /\ calls[r][1].outcome.kind = "error"
         /\ ~MatchesDeprecation(calls[r][1].outcome.msg)
         /\ ~MatchesRateLimit(calls[r][1].outcome.msg)) =>
            /\ Len(calls[r]) = 1
            /\ generated[r].kind = "error"
            /\ generated[r].text = NoText
            /\ generated[r].msg =
                   <<"G","r","o","q"," ","A","P","I"," ","e","r","r","o","r",":"," ">>
                       \o calls[r][1].outcome.msg
            /\ model_name = model_before[r]
            /\ ~response[r].success
            /\ response[r].code = 500
            /\ response[r].content = NoText
            /\ Contains(response[r].detail, generated[r].msg)
            /\ sent[r] = <<>>

\* C9 witness: a timeout of the provider on /post/create was answered 500
\* after one call, nothing having been published
C9_Witness ==
    \E r \in Slots :
        /\ request[r].endpoint = "post/create"
        /\ Len(calls[r]) = 1
        /\ calls[r][1].outcome = ErrorOutcome(MsgTimeout)
        /\ generated[r].kind = "error"
        /\ response[r].code = 500

\* some provider call of request r failed
AnyCallFailed(r) == \E k \in 1..Len(calls[r]) : calls[r][k].outcome.kind # "text"

\* the last provider call of request r failed
LastCallFailed(r) ==
    Len(calls[r]) >= 1 /\ calls[r][Len(calls[r])].outcome.kind # "text"

\* the publish provider rejected the post of request r, or the call to it failed
PublishFailed(r) == Len(answers[r]) >= 1 /\ answers[r][1].kind # "accepted"

\* C10 as stated: an operation in which a generation or publish call failed
\* ends in an error or in the non-empty advisory, never in a success with an
\* empty text, and /post/create succeeds only when the provider accepted
C10_FailureNeverSuccess ==
    \A r \in Slots :
        /\ (Invoked(r) /\ AnyCallFailed(r)) =>
               \/ generated[r].kind = "error" /\ ~response[r].success
               \/ generated[r].kind = "advisory" /\ Len(generated[r].text) > 0
        /\ PublishFailed(r) => ~response[r].success
        /\ (response[r].success /\ AnyCallFailed(r)) => Len(response[r].content) > 0
        /\ (request[r].endpoint = "post/create" /\ response[r].success) =>
               (Len(answers[r]) = 1 /\ answers[r][1].kind = "accepted")

\* C10 amended: an operation whose last generation call failed, or whose
\* publish call failed, ends in an error answer or in the non-empty advisory,
\* never in a success with an empty text, and /post/create succeeds only when
\* the provider accepted
C10_FailureReported ==
    \A r \in Slots :
        /\ (Invoked(r) /\ LastCallFailed(r)) =>
               \/ /\ generated[r].kind = "error"
                  /\ response[r].code = 500
                  /\ ~response[r].success
               \/ /\ generated[r].kind = "advisory"
                  /\ Len(generated[r].text) > 0
        /\ PublishFailed(r) => (response[r].code = 500 /\ ~response[r].success)
        /\ (response[r].success /\ LastCallFailed(r)) => Len(response[r].content) > 0
        /\ (request[r].endpoint = "post/create" /\ response[r].success) =>
               (Len(answers[r]) = 1 /\ answers[r][1].kind = "accepted")

\* C10 witness: on /post/create the generation call failed with a rate limit,
\* the advisory was posted, the publish provider rejected it and the answer is 500
C10_Witness ==
    \E r \in Slots :
        /\ request[r].endpoint = "post/create"
        /\ LastCallFailed(r)
        /\ generated[r].kind = "advisory"
        /\ PublishFailed(r)
        /\ response[r].code = 500

\* request r generates its content: /generate-content, /post/schedule, or
\* /post/create without pre-written content
Generates(r) ==
    \/ request[r].endpoint \in {"generate-content", "post/schedule"}
    \/ request[r].endpoint = "post/create" /\ ~Truthy(request[r].content)

\* the topic of request r is missing, empty or whitespace-only
BlankTopic(r) == request[r].topic = PyNone \/ Strip(request[r].topic) = <<>>

\* C11: a generating request whose topic is missing, empty or whitespace-only
\* is rejected before any generation or publish provider call is made
C11_BlankTopicRejected ==
    \A r \in Slots :
        (Generates(r) /\ BlankTopic(r)) =>
            /\ pc[r] = "responded"
            /\ ~response[r].success
            /\ calls[r] = <<>>
            /\ sent[r] = <<>>

\* C12 as stated: after any generate_post_content invocation the selected model
\* is the one selected before it, and the first provider call runs under it
C12_SelectionUnchanged ==
    \A r \in Slots :
        Invoked(r) =>
            /\ model_name = model_before[r]
            /\ Len(calls[r]) >= 1 => calls[r][1].model = model_before[r]

\* C12 amended: an invocation leaves the selected model as it was, except that
\* a successful fallback retry leaves the fast-tier id selected; the first
\* provider call runs under the model selected when the invocation began
C12_SelectionChangedOnlyByFallback ==
    \A r \in Slots :
        Invoked(r) =>
            /\ IF FallbackSucceeded(r)
               THEN model_name = id_fast
               ELSE model_name = model_before[r]
            /\ generated[r].selected = model_name
            /\ Len(calls[r]) >= 1 => calls[r][1].model = model_before[r]

\* C12 witness: a /post/schedule request that began under the compound model
\* ended after a successful fallback, the fast-tier id now selected
C12_Witness ==
    \E r \in Slots :
        /\ request[r].endpoint = "post/schedule"
        /\ FallbackSucceeded(r)
        /\ model_before[r] = id_compound
        /\ calls[r][1].model = id_compound
        /\ model_name = id_fast
        /\ response[r].success

\* C13: the text create_post sends to the publish provider has length <= 3000,
\* whatever content and author id it is given
C13_PostedWithinCeiling ==
    pub_pc = "posted" => Len(pub_data.text) <= PlatformLimit

\* C13 witness: a content of more than 3000 characters without a sentence end
\* in the window was posted as its first 2950 characters, under the URN built
\* from a bare person id
C13_Witness ==
    /\ pub_pc = "posted"
    /\ Len(pub_content) > PlatformLimit
    /\ Len(pub_data.text) = PublishCut
    /\ pub_data.text = SubSeq(pub_content, 1, PublishCut)
    /\ pub_person_id = linkedin_person_id
    /\ pub_data.author = UrnPrefix \o linkedin_person_id

\* C14: for every content longer than 3000 characters, the text create_post
\* sends is the cut that steps 2-4 of the length enforcer make with
\* max_chars = 2950
C14_SameTruncation ==
    (pub_pc = "posted" /\ Len(pub_content) > PlatformLimit)
        => pub_data.text = SmartTruncate(pub_content, DefaultMaxChars)

\* C15: a provider text is returned only after the sanitizer and then the
\* length enforcer have run on it, the publish provider is called at most
\* once, only with the prepared form of a text generation has returned (or of
\* the pre-written content), never before generation has completed and never
\* after a generation error
C15_PipelineOrder ==
    \A r \in Slots :
        /\ generated[r].kind = "content" =>
               /\ calls[r][Len(calls[r])].outcome.kind = "text"
               /\ generated[r].text =
                      EnforceCharacterLimit(
                          CleanResponse(Strip(calls[r][Len(calls[r])].outcome.text)),
                          DefaultMaxChars)
        /\ Len(sent[r]) <= 1
        /\ sent[r] # <<>> => request[r].endpoint = "post/create"
        /\ (sent[r] # <<>> /\ Generates(r)) =>
               /\ generated[r].kind \in {"content", "advisory"}
               /\ sent[r][1].text = PublishText(generated[r].text)
        /\ (sent[r] # <<>> /\ ~Generates(r)) =>
               /\ calls[r] = <<>>
               /\ sent[r][1].text = PublishText(request[r].content)
        /\ generated[r].kind = "error" => sent[r] = <<>>

\* C15 witness: on /post/create a provider text with a leaked line and more
\* than 2950 characters left after cleaning was posted as the 2950 characters
\* the enforcer kept of the cleaned text
C15_Witness ==
    \E r \in Slots :
        /\ request[r].endpoint = "post/create"
        /\ Len(calls[r]) = 1
        /\ calls[r][1].outcome = TextOutcome(LongLeakyPost)
        /\ generated[r].kind = "content"
        /\ Len(generated[r].text) = DefaultMaxChars
        /\ generated[r].text[1] = "a"
        /\ sent[r] # <<>>
        /\ sent[r][1].text = generated[r].text
        /\ response[r].success

Punctuation == {".", "?", "!"}

\* the 0-based index of the rightmost '.', '?' or '!' among the first max_chars
\* characters of text, -1 when there is none
BestEnding(text, max_chars) ==
    LET P == {i \in 1..Min2(Len(text), max_chars) : text[i] \in Punctuation}
    IN  IF P = {} THEN 0 - 1 ELSE (CHOOSE i \in P : \A j \in P : j <= i) - 1

\* the cut the specification describes: just after best_ending when it is
\* above max_chars - 200, otherwise the first max_chars characters
SpecifiedCut(text, max_chars) ==
    IF BestEnding(text, max_chars) > max_chars - 200
    THEN SubSeq(text, 1, BestEnding(text, max_chars) + 1)
    ELSE SubSeq(text, 1, Min2(Len(text), max_chars))

\* a line of fewer than 3 characters that starts with '#' begins at position i of t
ShortHashLineAt(t, i) ==
    /\ t[i] = "#"
    /\ (i = 1 \/ t[i - 1] = "\n")
    /\ \/ i = Len(t)
       \/ t[i + 1] = "\n"
       \/ i + 1 = Len(t)
       \/ t[i + 2] = "\n"

HasShortHashLine(t) == \E i \in 1..Len(t) : ShortHashLineAt(t, i)

\* the last line of t is a line of fewer than 3 characters that starts with '#'
FinalLineIsShortHash(t) ==
    \E i \in 1..Len(t) :
        ShortHashLineAt(t, i) /\ \A j \in i..Len(t) : t[j] # "\n"

EndsWithMarker(t) ==
    /\ Len(t) >= Len(ContinuationMarker)
    /\ SubSeq(t, Len(t) - Len(ContinuationMarker) + 1, Len(t)) = ContinuationMarker

\* t without the continuation marker at its end, if it ends with one
WithoutMarker(t) ==
    IF EndsWithMarker(t) THEN SubSeq(t, 1, Len(t) - Len(ContinuationMarker)) ELSE t

\* the enforcer has returned for a text longer than max_chars
Truncated == enf_pc = "return" /\ Len(enf_content) > enf_max_chars

\* the enforcer has returned for a text longer than max_chars with a sentence
\* end in the window
SentenceCut ==
    /\ Truncated
    /\ BestEnding(enf_content, enf_max_chars) >= 0
    /\ BestEnding(enf_content, enf_max_chars) > enf_max_chars - 200

\* C16 as stated: when a sentence end lies in the window, the last character
\* of the output is that sentence end
C16_EndsAtSentence ==
    SentenceCut =>
        /\ enf_result # <<>>
        /\ enf_result[Len(enf_result)] \in Punctuation

\* C16 amended: when a sentence end lies in the window, the output without an
\* appended continuation marker ends with the rightmost sentence end of the
\* first max_chars characters, unless that character is the second one of a
\* final line '#.', '#?' or '#!', which is dropped as a short '#' line
C16_EndsAtSentenceBeforeMarker ==
    SentenceCut =>
        LET at == BestEnding(enf_content, enf_max_chars) + 1
        IN  \/ /\ at >= 2
               /\ enf_content[at - 1] = "#"
               /\ (at = 2 \/ enf_content[at - 2] = "\n")
            \/ \E body \in {enf_result, WithoutMarker(enf_result)} :
                  /\ body # <<>>
                  /\ body[Len(body)] = enf_content[at]
                  /\ Len(body) <= at
                  /\ enf_result = IF Len(body) < enf_max_chars - 50
                                  THEN body \o ContinuationMarker
                                  ELSE body

\* C16 witness: at the default max_chars a sentence ended 52 characters before
\* the limit, the text was cut after it and the marker follows the '.'
C16_Witness ==
    /\ SentenceCut
    /\ enf_max_chars = DefaultMaxChars
    /\ BestEnding(enf_content, enf_max_chars) = DefaultMaxChars - 52
    /\ EndsWithMarker(enf_result)
    /\ WithoutMarker(enf_result) = SubSeq(enf_content, 1, DefaultMaxChars - 51)
    /\ enf_result[DefaultMaxChars - 51] = "."

\* C17 as stated: for a text longer than max_chars that holds no short '#'
\* line, the output, but for an appended marker, is the specified cut
C17_CutOfCleanText ==
    (Truncated /\ ~HasShortHashLine(enf_content)) =>
        \/ enf_result = SpecifiedCut(enf_content, enf_max_chars)
        \/ enf_result = SpecifiedCut(enf_content, enf_max_chars) \o ContinuationMarker

\* C17 amended: for a text longer than max_chars whose specified cut holds no
\* short '#' line, the output, but for an appended marker, is that cut
C17_CutWithoutShortHashLine ==
    (Truncated /\ ~HasShortHashLine(SpecifiedCut(enf_content, enf_max_chars))) =>
        \/ enf_result = SpecifiedCut(enf_content, enf_max_chars)
        \/ enf_result = SpecifiedCut(enf_content, enf_max_chars) \o ContinuationMarker

\* C17 witness: at the default max_chars the rightmost sentence end is at
\* max_chars - 200 exactly, and the output is the first max_chars characters
C17_Witness ==
    /\ Truncated
    /\ enf_max_chars = DefaultMaxChars
    /\ BestEnding(enf_content, enf_max_chars) = DefaultMaxChars - 200
    /\ ~HasShortHashLine(SubSeq(enf_content, 1, DefaultMaxChars))
    /\ enf_result = SubSeq(enf_content, 1, DefaultMaxChars)

C19_HardCut ==
    (Truncated /\ BestEnding(enf_content, enf_max_chars) = 0 - 1) =>
        enf_result = SubSeq(enf_content, 1, enf_max_chars)

\* C20: the marker is appended exactly when the text was longer than max_chars
\* and the cut, line-cleaned text is shorter than max_chars - 50; it is
\* appended once, at the end, and the rest of the output is that text
C20_MarkerExactlyWithHeadroom ==
    enf_pc = "return" =>
        LET cleaned == RemoveIncompleteHashtags(SmartTruncate(enf_content, enf_max_chars))
        IN  IF Len(enf_content) > enf_max_chars /\ Len(cleaned) < enf_max_chars - 50
            THEN enf_result = cleaned \o ContinuationMarker
            ELSE /\ ~EndsWithMarker(enf_result)
                 /\ Len(enf_content) > enf_max_chars => enf_result = cleaned
                 /\ Len(enf_content) <= enf_max_chars => enf_result = enf_content

\* C20 witness: the cut text is 51 characters under the default max_chars and
\* the output is that text with the marker after it
C20_Witness ==
    /\ Truncated
    /\ enf_max_chars = DefaultMaxChars
    /\ Len(enf_result) = DefaultMaxChars - 51 + Len(ContinuationMarker)
    /\ EndsWithMarker(enf_result)
    /\ ~EndsWithMarker(WithoutMarker(enf_result))
    /\ WithoutMarker(enf_result) = SubSeq(enf_content, 1, DefaultMaxChars - 51)


\* C21: for a text longer than max_chars the output, but for an appended
\* marker, is a prefix of the input, so that a short '#' line before the cut
\* is kept
C21_ResultIsPrefix ==
    Truncated =>
        \E body \in {enf_result, WithoutMarker(enf_result)} :
            /\ Len(body) <= Len(enf_content)
            /\ body = SubSeq(enf_content, 1, Len(body))

\* the line contains one of the leak phrases, letter case ignored
ContainsLeakPhrase(line) ==
    \E k \in 1..Len(instruction_phrases) :
        Contains(Lower(line), Lower(instruction_phrases[k]))

\* C22: no line of the sanitizer's output contains a leak phrase, letter case
\* ignored, and no input line that contains one is a line of the output
C22_NoLeakLine ==
    clean_pc = "return" =>
        LET in_lines == SplitLines(clean_content)
            out_lines == SplitLines(final_content)
        IN  /\ \A k \in 1..Len(out_lines) : ~ContainsLeakPhrase(out_lines[k])
            /\ \A i \in 1..Len(in_lines) :
                  ContainsLeakPhrase(in_lines[i]) =>
                      \A k \in 1..Len(out_lines) :
                          /\ out_lines[k] # in_lines[i]
                          /\ out_lines[k] # Strip(in_lines[i])

\* C22 witness: a line with a leak phrase in capitals stood between two kept
\* lines, and the output is the two kept lines
C22_Witness ==
    /\ clean_pc = "return"
    /\ clean_content = <<"a","\n","x","T","O","N","E",":","\n","a">>
    /\ final_content = <<"a","\n","a">>

\* the sanitizer drops the input line: it holds a leak phrase, or is a dash
\* line of fewer than 8 tokens once trimmed
Filtered(line) ==
    \/ ContainsLeakPhrase(line)
    \/ /\ Strip(line) # <<>>
       /\ Head(Strip(line)) = "-"
       /\ TokenCount(line) < 8

\* C23: when all lines of the input are filtered the sanitizer returns the
\* empty text, and it raises the warning, and still returns the text, exactly
\* when the text it returns is shorter than 50 characters
C23_ShortTextWarned ==
    clean_pc = "return" =>
        LET in_lines == SplitLines(clean_content)
        IN  /\ clean_warned <=> Len(final_content) < 50
            /\ (\A i \in 1..Len(in_lines) : Filtered(in_lines[i])) =>
                  (final_content = <<>> /\ clean_warned)

\* C23 witness: every line of the input was filtered, the empty text came
\* back and the warning was raised
C23_Witness ==
    /\ clean_pc = "return"
    /\ clean_content = <<"T","o","n","e",":"," ","a","\n","\t","-"," ","a">>
    /\ final_content = <<>>
    /\ clean_warned

\* the lines at the indices of K, in their order
RECURSIVE PickLines(_, _, _)
PickLines(lines, K, i) ==
    IF i > Len(lines) THEN <<>>
    ELSE IF i \in K THEN <<lines[i]>> \o PickLines(lines, K, i + 1)
    ELSE PickLines(lines, K, i + 1)

\* the line starts with a dash and has fewer than 8 whitespace-separated tokens
ShortDashInitial(line) ==
    /\ line # <<>>
    /\ Head(line) = "-"
    /\ TokenCount(line) < 8

\* indices of the lines that are kept: no leak phrase, no short dash-initial
\* line, no blank line before the first kept line
KeptIndices(lines) ==
    LET Content(i) ==
            /\ ~ContainsLeakPhrase(lines[i])
            /\ ~ShortDashInitial(lines[i])
            /\ Strip(lines[i]) # <<>>
    IN  {i \in 1..Len(lines) :
            /\ ~ContainsLeakPhrase(lines[i])
            /\ ~ShortDashInitial(lines[i])
            /\ (Strip(lines[i]) # <<>> \/ \E j \in 1..(i - 1) : Content(j))}

\* C24 as stated: the output is the trimmed newline-join of the kept input
\* lines, as they stand in the input
C24_JoinOfInputLines ==
    clean_pc = "return" =>
        LET in_lines == SplitLines(clean_content)
        IN  final_content =
                Strip(JoinLines(PickLines(in_lines, KeptIndices(in_lines), 1)))

\* C24 amended: the output is the trimmed newline-join of the kept lines, each
\* input line being trimmed before it is tested and kept
C24_JoinOfTrimmedLines ==
    clean_pc = "return" =>
        LET in_lines == SplitLines(clean_content)
            trimmed == [i \in 1..Len(in_lines) |-> Strip(in_lines[i])]
        IN  final_content =
                Strip(JoinLines(PickLines(trimmed, KeptIndices(trimmed), 1)))

\* C24 witness: a padded line, a blank line and an 8-token dash line came out
\* trimmed, in their order, with the blank line between them
C24_Witness ==
    /\ clean_pc = "return"
    /\ clean_content =
          <<" ","a"," ","\n"," ","\n","-"," ","a"," ","b"," ","c"," ","d"," ",
            "e"," ","f"," ","g">>
    /\ final_content =
          <<"a","\n","\n","-"," ","a"," ","b"," ","c"," ","d"," ","e"," ","f",
            " ","g">>

\* the guidance of the first entry from the k-th on, in table order, whose key
\* is in the topic, letter case ignored; the generic guidance if there is none
RECURSIVE FirstMatchFrom(_, _)
FirstMatchFrom(topic_text, k) ==
    IF k > Len(topic_expertise) THEN generic_guidance
    ELSE IF Contains(Lower(topic_text), Lower(topic_expertise[k].key))
         THEN topic_expertise[k].guidance
         ELSE FirstMatchFrom(topic_text, k + 1)

\* the texts of the request that the prompt quotes
QuotedTexts(args) ==
    {args.topic} \cup
    (IF Truthy(args.target_audience) THEN {args.target_audience} ELSE {}) \cup
    (IF Truthy(args.call_to_action) THEN {args.call_to_action} ELSE {})

\* C25 as stated: the guidance is that of the first matching table entry, the
\* generic one exactly when no key matches, and the prompt contains it and no
\* other entry's guidance
C25_OnlySelectedGuidance ==
    prompt_pc = "return" =>
        /\ specific_guidance = FirstMatchFrom(prompt_args.topic, 1)
        /\ Contains(prompt, specific_guidance)
        /\ \A k \in 1..Len(topic_expertise) :
              topic_expertise[k].guidance # specific_guidance =>
                  ~Contains(prompt, topic_expertise[k].guidance)

\* C25 amended: the guidance is that of the first matching table entry, the
\* generic one exactly when no key matches; it stands on the prompt's Focus
\* line, and another entry's guidance is in the prompt only where a text of
\* the request quotes it
C25_SelectedGuidanceOnFocusLine ==
    prompt_pc = "return" =>
        /\ specific_guidance = FirstMatchFrom(prompt_args.topic, 1)
        /\ (specific_guidance = generic_guidance) <=>
              (\A k \in 1..Len(topic_expertise) :
                  ~Contains(Lower(prompt_args.topic), topic_expertise[k].key))
        /\ Contains(prompt, PromptParts.focus \o specific_guidance \o PromptParts.rules)
        /\ \A k \in 1..Len(topic_expertise) :
              (/\ topic_expertise[k].guidance # specific_guidance
               /\ Contains(prompt, topic_expertise[k].guidance))
              => \E quoted \in QuotedTexts(prompt_args) :
                     Contains(quoted, topic_expertise[k].guidance)

\* C25 witness: the topic holds the keys of entries 3 and 1, the key of entry 3
\* first, and the prompt carries the guidance of entry 1 and not that of entry 3
C25_Witness ==
    /\ prompt_pc = "return"
    /\ Contains(Lower(prompt_args.topic), topic_expertise[1].key)
    /\ Contains(Lower(prompt_args.topic), topic_expertise[3].key)
    /\ specific_guidance = topic_expertise[1].guidance
    /\ Contains(prompt, topic_expertise[1].guidance)
    /\ ~Contains(prompt, topic_expertise[3].guidance)

\* C26: the author sent starts with 'urn:li:person:'; an id that carries the
\* prefix is sent unchanged, any other id gets the prefix prepended once, and
\* normalizing the author sent again changes nothing
C26_AuthorPrefixedOnce ==
    pub_pc = "posted" =>
        LET sent_author == pub_data.author
            Prefixed(id) == Len(id) >= Len(UrnPrefix)
                            /\ SubSeq(id, 1, Len(UrnPrefix)) = UrnPrefix
        IN  /\ Prefixed(sent_author)
            /\ Prefixed(pub_person_id) => sent_author = pub_person_id
            /\ ~Prefixed(pub_person_id) =>
                  /\ sent_author = UrnPrefix \o pub_person_id
                  /\ ~Prefixed(SubSeq(sent_author, Len(UrnPrefix) + 1, Len(sent_author)))
            /\ AuthorUrn(sent_author) = sent_author

\* C26 witness: an id that holds the prefix after another character got the
\* prefix prepended
C26_Witness ==
    /\ pub_pc = "posted"
    /\ pub_person_id = <<"x">> \o UrnPrefix \o linkedin_person_id
    /\ pub_data.author = UrnPrefix \o <<"x">> \o UrnPrefix \o linkedin_person_id

\* C28: the publish provider is never handed the rate-limit advisory: a
\* request whose generation ended in the advisory posts nothing
C28_AdvisoryNotPublished ==
    \A r \in Slots :
        generated[r].kind = "advisory" =>
            /\ sent[r] = <<>>
            /\ pc[r] # "publish_submitted"

\* C29: the content of the answer to a successful /post/create is the text
\* that was sent to the publish provider
C29_ResponseIsPostedText ==
    \A r \in Slots :
        (/\ request[r].endpoint = "post/create"
         /\ pc[r] = "responded"
         /\ response[r].success) =>
            /\ Len(sent[r]) = 1
            /\ response[r].content = sent[r][1].text

\* C27: when every invocation in flight together failed with the
\* model-deprecation pattern and failed again in the fallback, the model
\* selected once all have finished is the one selected before they started
C27_RestoredAfterInterleaving ==
    (\A r \in Slots : pc[r] = "responded" /\ DoubleFailure(r)) =>
        \E r \in Slots : model_name = model_before[r]

\* C30: the selected model id is one of the four catalog ids, the catalog is
\* never modified, and switch_model with an unknown key leaves the selection
\* as it is
C30_SelectionInCatalog ==
    /\ model_name \in {id_fast, id_balanced, id_quality, id_compound}
    /\ available_models = ModelCatalog
    /\ DOMAIN available_models = {key_fast, key_balanced, key_quality, key_compound}
    /\ \A model_key \in SwitchKeys :
          LET after == SwitchedModel(available_models, model_name, model_key)
          IN  /\ after \in {id_fast, id_balanced, id_quality, id_compound}
              /\ model_key \notin DOMAIN ModelCatalog => after = model_name

\* C30 witness: the service was built or switched to the balanced model, a
\* request failed twice under it, and the selection is the balanced id again
C30_Witness ==
    \E r \in Slots :
        /\ pc[r] = "responded"
        /\ DoubleFailure(r)
        /\ calls[r][1].model = id_balanced
        /\ calls[r][2].model = id_fast
        /\ model_name = id_balanced

=============================================================================
